---- MODULE Spec2Model ----
(***************************************************************************)
(* Model of the 4KHDHub provider (src/providers/4khdhub.js).               *)
(*                                                                         *)
(* Spec          get4KHDHubStreams: metadata lookup, page search, content  *)
(*               page, and the runQueue worker pool around processItem.    *)
(* SpecFetch     fetchText: the retry loop with its backoff.               *)
(* SpecRedirect  resolveRedirectUrl: cache, token pattern, decoding chain. *)
(* SpecSearch    fetchPageUrl: cache, card filters, first match.           *)
(* SpecCloud     extractHubCloud: cache, interstitial page, final links,   *)
(*               with two calls in flight.                                 *)
(* SpecMatch     the card filter of fetchPageUrl on one search page.       *)
(* SpecSource    extractSourceResults: the metadata of one entry.          *)
(* SpecItem      processItem on one entry, with nothing in the cache.      *)
(* SpecSelect    get4KHDHubStreams: the entries chosen from the page.      *)
(* SpecStages    the calls of one of the three stages that cache.          *)
(* SpecRace      two workers of runQueue on one cache key.                 *)
(* SpecKeys      the cache keys of the three stages.                       *)
(* SpecLive      Spec with the fairness of requests that settle and of     *)
(*               continuations that run.                                   *)
(*                                                                         *)
(* The JavaScript runtime is single threaded.  An action of the model is   *)
(* the code that runs between two awaits.  Completions of I/O are          *)
(* macrotasks; promise reactions (the .then callback of a worker, the      *)
(* continuation of Promise.race / Promise.all) are microtasks and run      *)
(* before the next macrotask, which the guard ~MicrotaskPending states.    *)
(***************************************************************************)
EXTENDS Integers, Sequences, FiniteSets, TLC

\* ---------------------------------------------------------------- bounds
MaxItems == 6
MaxLinks == 1

\* ------------------------------------------------------ program constants
CONCURRENCY_LIMIT == 5

VARIABLES
    pc,          \* position of get4KHDHubStreams
    tmdbDetails, \* result of getTmdbDetails
    pageUrl,     \* result of fetchPageUrl
    itemsToProcess, \* number of candidate entries found on the content page
    queue,       \* runQueue: entries not yet admitted
    workers,     \* runQueue: promises p of admitted entries, not yet spliced
    racing,      \* the workers handed to the pending Promise.race
    st,          \* per entry: position of processItem
    outcome,     \* per entry: how its resolution ended
    produced,    \* per entry: number of links extractHubCloud returned
    results,     \* the shared result collector: its order is completion
                 \* order and is not relied on, so it is kept as the number
                 \* of descriptors pushed for each entry
    requests,    \* kinds of HTTP request the call has gone on to make
    \* ---- fetchText
    fpc,         \* position of fetchText
    fi,          \* its loop counter i
    attempts,    \* what each request attempt made so far ended with
    delays,      \* the backoff waits taken so far, in ms
    fret,        \* its return value
    \* ---- resolveRedirectUrl
    cacheEnabled, \* CACHE_ENABLED, read from the environment at start
    rpc,         \* position of resolveRedirectUrl
    redirectUrl, \* its argument
    rpage,       \* the page fetchText returned to it (redirectHtml)
    rret,        \* its return value
    rcache,      \* the redirect entries of the cache
    rcache0,     \* rcache as it was when the call started
    \* ---- fetchPageUrl
    now,         \* the clock, in seconds
    spc,         \* position of fetchPageUrl
    sargs,       \* its arguments name, year, isSeries
    slookup,     \* the time of its cache lookup
    sreq,        \* search requests it has issued
    sret,        \* its return value
    scache,      \* the search entries of the cache
    found,       \* per (name, year): the URL that the last call which
                 \* searched and found a page returned, and when
    skind,       \* per key: isSeries of the call that saved the entry
    \* ---- extractHubCloud
    hpc,         \* per call in flight: position of extractHubCloud
    hargs,       \* its arguments hubCloudUrl and baseMeta, and what its
                 \* cache lookup saw of the earlier calls with the URL
    hfinal,      \* finalLinksUrl
    hret,        \* the call that returned last, and its return value
    hcache,      \* the final-links entries of the cache
    hcalls,      \* the number of calls of extractHubCloud made
    hist,        \* per cloud URL: what the last call returned and when, and
                 \* the same for the last call that resolved from the origin
    \* ---- one evaluation of a function of the module on given inputs
    epc,         \* "ready" before it is applied, "done" after
    ein,         \* its inputs
    eout         \* its result

streamVars == <<pc, tmdbDetails, pageUrl, itemsToProcess, queue, workers,
                racing, st, outcome, produced, results, requests>>
fetchVars == <<fpc, fi, attempts, delays, fret>>
redirectVars == <<cacheEnabled, rpc, redirectUrl, rpage, rret, rcache, rcache0>>

searchVars == <<now, spc, sargs, slookup, sreq, sret, scache, found, skind>>

cloudVars == <<hpc, hargs, hfinal, hret, hcache, hcalls, hist>>

evalVars == <<epc, ein, eout>>

vars == <<streamVars, fetchVars, redirectVars, searchVars, cloudVars,
          evalVars>>

\* the variables of the other specifications, at rest
FetchIdle ==
    /\ fpc = "idle" /\ fi = 0 /\ attempts = <<>> /\ delays = <<>>
    /\ fret = "pending"

RedirectIdle ==
    /\ cacheEnabled = TRUE /\ rpc = "idle" /\ redirectUrl = <<>>
    /\ rpage = <<>> /\ rret = <<>> /\ rcache = <<>> /\ rcache0 = <<>>

SearchIdle ==
    /\ now = 0 /\ spc = "idle" /\ sargs = <<>> /\ slookup = 0 /\ sreq = 0
    /\ sret = <<>> /\ scache = <<>> /\ found = <<>>
    /\ skind = <<>>

CloudIdle ==
    /\ hpc = "idle" /\ hargs = <<>> /\ hfinal = <<>>
    /\ hret = <<>> /\ hcache = <<>> /\ hcalls = 0 /\ hist = <<>>

EvalIdle == epc = "idle" /\ ein = <<>> /\ eout = <<>>

notStream == <<fetchVars, redirectVars, searchVars, cloudVars, evalVars>>

StreamIdle ==
    /\ pc = "idle" /\ tmdbDetails = "pending" /\ pageUrl = "pending"
    /\ itemsToProcess = 0 /\ queue = <<>> /\ workers = <<>> /\ racing = {}
    /\ st = [i \in 1..MaxItems |-> "absent"]
    /\ outcome = [i \in 1..MaxItems |-> "none"]
    /\ produced = [i \in 1..MaxItems |-> 0]
    /\ results = [i \in 1..MaxItems |-> 0]
    /\ requests = {}

Items == 1..MaxItems

RequestKinds == {"tmdb", "search", "page", "redirect", "cloud"}

Range(s) == {s[k] : k \in 1..Len(s)}

RECURSIVE Remove(_, _)
\* workers.splice(workers.indexOf(p), 1)
Remove(s, i) ==
    IF s = <<>> THEN <<>>
    ELSE IF Head(s) = i THEN Tail(s)
    ELSE <<Head(s)>> \o Remove(Tail(s), i)

\* entries whose processItem has started and has not completed
InFlight == {i \in Items : st[i] \in {"source", "cloud"}}

\* if (workers.length >= CONCURRENCY_LIMIT)
AtLimitOffByOne(w) == Len(w) > CONCURRENCY_LIMIT
AtLimit(w) == Len(w) >= CONCURRENCY_LIMIT

\* the body of the while loop after the limit test: shift one entry, start
\* processItem on it, push its promise
RECURSIVE Admit(_, _)
Admit(q, w) ==
    IF q = <<>> \/ AtLimit(w) THEN <<q, w>>
    ELSE Admit(Tail(q), Append(w, Head(q)))

\* the state after the synchronous run of the while loop, given the queue
\* and the workers r = <<queue, workers>> it ends with: the loop stops at
\* await Promise.race(workers) or, the queue empty, at Promise.all(workers)
LoopStops(r) ==
    /\ queue' = r[1]
    /\ workers' = r[2]
    /\ IF r[1] = <<>>
       THEN pc' = "all" /\ racing' = {}
       ELSE pc' = "race" /\ racing' = Range(r[2])
    /\ requests' = IF r[2] = <<>> THEN requests ELSE requests \cup {"redirect"}

RaceSettledWhenAll ==
    pc = "race" /\ \A i \in racing : i \notin Range(workers)
RaceSettled == pc = "race" /\ \E i \in racing : i \notin Range(workers)
AllSettledQueueEmpty == pc = "all"
AllSettled == pc = "all" /\ workers = <<>>

MicrotaskPending ==
    \/ \E i \in Items : st[i] = "finished"
    \/ RaceSettled
    \/ AllSettled

Init ==
    /\ pc = "getTmdbDetails"
    /\ tmdbDetails = "pending"
    /\ pageUrl = "pending"
    /\ itemsToProcess = 0
    /\ queue = <<>>
    /\ workers = <<>>
    /\ racing = {}
    /\ st = [i \in Items |-> "absent"]
    /\ outcome = [i \in Items |-> "none"]
    /\ produced = [i \in Items |-> 0]
    /\ results = [i \in Items |-> 0]
    /\ requests = {"tmdb"}
    /\ FetchIdle /\ RedirectIdle /\ SearchIdle /\ CloudIdle /\ EvalIdle

poolVars == <<itemsToProcess, queue, workers, racing, st, outcome, produced>>

\* getTmdbDetails settles; lines 361-367 and the first line of fetchPageUrl
TmdbFailed ==
    /\ pc = "getTmdbDetails"
    /\ tmdbDetails' = "null"
    /\ pc' = "returned"
    /\ UNCHANGED <<pageUrl, poolVars, results, requests>>
    /\ UNCHANGED notStream

\* the response has no title: name is undefined and name.replace throws
\* outside any try block
TmdbNoTitle ==
    /\ pc = "getTmdbDetails"
    /\ tmdbDetails' = "noTitle"
    /\ pc' = "thrown"
    /\ UNCHANGED <<pageUrl, poolVars, results, requests>>
    /\ UNCHANGED notStream

TmdbOk ==
    /\ pc = "getTmdbDetails"
    /\ tmdbDetails' = "ok"
    /\ pc' = "searchCacheGet"
    /\ UNCHANGED <<pageUrl, poolVars, results, requests>>
    /\ UNCHANGED notStream

\* if (!pageUrl) return []
PageNotFoundKeepsGoing ==
    /\ pageUrl' = "null"
    /\ pc' = "fetchPage"
    /\ requests' = requests \cup {"page"}
PageNotFound ==
    /\ pageUrl' = "null"
    /\ pc' = "returned"
    /\ UNCHANGED requests

PageFound ==
    /\ pageUrl' = "url"
    /\ pc' = "fetchPage"
    /\ requests' = requests \cup {"page"}

\* fetchPageUrl: the cache lookup settles with a stored page URL
SearchCacheHit ==
    /\ pc = "searchCacheGet"
    /\ PageFound
    /\ UNCHANGED <<tmdbDetails, poolVars, results>>
    /\ UNCHANGED notStream

SearchCacheMiss ==
    /\ pc = "searchCacheGet"
    /\ pc' = "searchFetch"
    /\ requests' = requests \cup {"search"}
    /\ UNCHANGED <<tmdbDetails, pageUrl, poolVars, results>>
    /\ UNCHANGED notStream

\* fetchPageUrl: fetchText(searchUrl) returned null
SearchFetchFailed ==
    /\ pc = "searchFetch"
    /\ PageNotFound
    /\ UNCHANGED <<tmdbDetails, poolVars, results>>
    /\ UNCHANGED notStream

\* fetchPageUrl: the search page has no matching card
SearchNoMatch ==
    /\ pc = "searchFetch"
    /\ PageNotFound
    /\ UNCHANGED <<tmdbDetails, poolVars, results>>
    /\ UNCHANGED notStream

\* fetchPageUrl: the first matching card's href is returned
SearchMatch ==
    /\ pc = "searchFetch"
    /\ PageFound
    /\ UNCHANGED <<tmdbDetails, poolVars, results>>
    /\ UNCHANGED notStream

\* fetchText(pageUrl) returned null
FetchPageFailed ==
    /\ pc = "fetchPage"
    /\ pc' = "returned"
    /\ UNCHANGED <<tmdbDetails, pageUrl, poolVars, results, requests>>
    /\ UNCHANGED notStream

\* the content page is parsed into n entries and runQueue starts
FetchPageOk ==
    /\ pc = "fetchPage"
    /\ \E n \in 0..MaxItems :
         LET q == [k \in 1..n |-> k] IN
         /\ itemsToProcess' = n
         /\ LET r == Admit(q, <<>>) IN
            /\ LoopStops(r)
            /\ st' = [i \in Items |->
                        IF i \in Range(r[2]) THEN "source"
                        ELSE IF i <= n THEN "queued" ELSE "absent"]
    /\ UNCHANGED <<tmdbDetails, pageUrl, outcome, produced, results>>
    /\ UNCHANGED notStream

\* catch (err) { logWarn(...) } of processItem
ItemUncaught(i, o) ==
    /\ pc' = "thrown"
    /\ st' = [st EXCEPT ![i] = "rejected"]
    /\ outcome' = [outcome EXCEPT ![i] = o]
    /\ UNCHANGED <<produced, results>>
ItemCaught(i, o) ==
    /\ st' = [st EXCEPT ![i] = "finished"]
    /\ outcome' = [outcome EXCEPT ![i] = o]
    /\ UNCHANGED <<pc, produced, results>>

\* processItem ends without an exception and without a cloud URL
ItemSkipped(i, o) ==
    /\ st' = [st EXCEPT ![i] = "finished"]
    /\ outcome' = [outcome EXCEPT ![i] = o]
    /\ UNCHANGED <<pc, produced, results>>

\* extractSourceResults settles for entry i with an exception
SourceThrows(i) ==
    /\ st[i] = "source" /\ ~MicrotaskPending
    /\ ItemCaught(i, "threw")
    /\ UNCHANGED <<tmdbDetails, pageUrl, itemsToProcess, queue, workers,
                   racing, requests>>
    /\ UNCHANGED notStream

\* extractSourceResults returns null, or a result whose url is null
SourceNull(i) ==
    /\ st[i] = "source" /\ ~MicrotaskPending
    /\ ItemSkipped(i, "empty")
    /\ UNCHANGED <<tmdbDetails, pageUrl, itemsToProcess, queue, workers,
                   racing, requests>>
    /\ UNCHANGED notStream

\* extractSourceResults returns a cloud URL; extractHubCloud is called
SourceResolved(i) ==
    /\ st[i] = "source" /\ ~MicrotaskPending
    /\ st' = [st EXCEPT ![i] = "cloud"]
    /\ requests' = requests \cup {"cloud"}
    /\ UNCHANGED <<pc, tmdbDetails, pageUrl, itemsToProcess, queue, workers,
                   racing, outcome, produced, results>>
    /\ UNCHANGED notStream

\* extractHubCloud settles for entry i with an exception
CloudThrows(i) ==
    /\ st[i] = "cloud" /\ ~MicrotaskPending
    /\ ItemCaught(i, "threw")
    /\ UNCHANGED <<tmdbDetails, pageUrl, itemsToProcess, queue, workers,
                   racing, requests>>
    /\ UNCHANGED notStream

\* extractHubCloud returns k links;
\* extractedLinks.forEach(link => results.push(...))
CloudLinks(i) ==
    /\ st[i] = "cloud" /\ ~MicrotaskPending
    /\ \E k \in 0..MaxLinks :
         /\ produced' = [produced EXCEPT ![i] = k]
         /\ results' = [results EXCEPT ![i] = @ + k]
         /\ outcome' = [outcome EXCEPT ![i] = IF k = 0 THEN "empty" ELSE "links"]
    /\ st' = [st EXCEPT ![i] = "finished"]
    /\ UNCHANGED <<pc, tmdbDetails, pageUrl, itemsToProcess, queue, workers,
                   racing, requests>>
    /\ UNCHANGED notStream

\* .then(() => { workers.splice(workers.indexOf(p), 1); })
ThenCallback(i) ==
    /\ st[i] = "finished"
    /\ st' = [st EXCEPT ![i] = "settled"]
    /\ workers' = Remove(workers, i)
    /\ UNCHANGED <<pc, tmdbDetails, pageUrl, itemsToProcess, queue, racing,
                   outcome, produced, results, requests>>
    /\ UNCHANGED notStream

\* await Promise.race(workers) resumes: shift, start, push, then loop on
RaceResume ==
    /\ RaceSettled
    /\ \A i \in Items : st[i] # "finished"
    /\ LET item == Head(queue) IN
       LET r == Admit(Tail(queue), Append(workers, item)) IN
       /\ LoopStops(r)
       /\ st' = [i \in Items |->
                   IF i \in Range(r[2]) /\ st[i] = "queued" THEN "source"
                   ELSE st[i]]
    /\ UNCHANGED <<tmdbDetails, pageUrl, itemsToProcess, outcome, produced,
                   results>>
    /\ UNCHANGED notStream

\* await Promise.all(workers) resumes; return results
AllResume ==
    /\ AllSettled
    /\ pc' = "returned"
    /\ UNCHANGED <<tmdbDetails, pageUrl, poolVars, results, requests>>
    /\ UNCHANGED notStream

Next ==
    \/ TmdbFailed
    \/ TmdbNoTitle
    \/ TmdbOk
    \/ SearchCacheHit
    \/ SearchCacheMiss
    \/ SearchFetchFailed
    \/ SearchNoMatch
    \/ SearchMatch
    \/ FetchPageFailed
    \/ FetchPageOk
    \/ \E i \in Items : SourceThrows(i)
    \/ \E i \in Items : SourceNull(i)
    \/ \E i \in Items : SourceResolved(i)
    \/ \E i \in Items : CloudThrows(i)
    \/ \E i \in Items : CloudLinks(i)
    \/ \E i \in Items : ThenCallback(i)
    \/ RaceResume
    \/ AllResume

Spec == Init /\ [][Next]_vars

\* C1: in runQueue the number of entries whose processItem has started and
\* has not completed never exceeds CONCURRENCY_LIMIT, whatever the number of
\* entries and the order in which they complete
C1_ConcurrencyCap == Cardinality(InFlight) <= CONCURRENCY_LIMIT

C1_Witness ==
    /\ Cardinality(InFlight) = CONCURRENCY_LIMIT
    /\ itemsToProcess > CONCURRENCY_LIMIT
    /\ \E i \in Items : st[i] = "settled"

\* C2: get4KHDHubStreams never throws to its caller, whatever fails inside
\* (a metadata response without a title included)
C2_NeverThrows == pc # "thrown"

Failed(i) == outcome[i] \in {"threw", "empty"}

\* C3: an entry whose resolution fails (exception, or null / empty result)
\* contributes no descriptor, does not abort the batch, and when the call
\* returns every entry has been processed and every descriptor the other
\* entries produced is in the returned list
C3_FailureIsolated ==
    /\ \A i \in Items : Failed(i) => results[i] = 0
    /\ (\E i \in Items : Failed(i)) => pc # "thrown"
    /\ (pc = "returned" /\ pageUrl = "url") =>
          \A i \in 1..itemsToProcess :
              st[i] = "settled" /\ results[i] = produced[i]

C3_Witness ==
    /\ pc = "returned"
    /\ \E i, j, k \in 1..itemsToProcess :
         /\ outcome[i] = "threw" /\ outcome[k] = "empty"
         /\ i < j /\ outcome[j] = "links" /\ results[j] > 0

\* C4: when the metadata lookup fails or the search finds no page, the call
\* has returned the empty list and makes no content-page, redirect or cloud
\* request and admits no entry
C4_ShortCircuit ==
    (tmdbDetails = "null" \/ pageUrl = "null") =>
        /\ pc = "returned"
        /\ \A i \in Items : results[i] = 0 /\ st[i] = "absent"
        /\ requests \cap {"page", "redirect", "cloud"} = {}
        /\ queue = <<>> /\ workers = <<>>

C4_Witness ==
    /\ pageUrl = "null" /\ pc = "returned" /\ "search" \in requests

\* C18: whenever runQueue is suspended with no continuation left to run
\* and entries still queued, exactly CONCURRENCY_LIMIT entries are in
\* flight (with fewer in flight the next entry has been admitted, and after
\* a completion at the limit the admission has resumed without waiting for
\* the entries still running); entries are admitted in queue order: the
\* queue holds the last entries in their order and every entry before them
\* has been admitted
C18_SlidingWindow ==
    /\ (pc \in {"race", "all"} /\ ~MicrotaskPending /\ queue # <<>>) =>
          Cardinality(InFlight) = CONCURRENCY_LIMIT
    /\ pc \in {"race", "all"} =>
          /\ queue = [k \in 1..Len(queue) |->
                        itemsToProcess - Len(queue) + k]
          /\ \A i \in 1..itemsToProcess :
                (st[i] = "queued") <=> (i > itemsToProcess - Len(queue))

\* the sixth entry is in flight next to entries of the first five that
\* are still running, one of the first five having completed
C18_Witness ==
    /\ pc = "all" /\ ~MicrotaskPending
    /\ CONCURRENCY_LIMIT + 1 \in InFlight
    /\ Cardinality(InFlight) = CONCURRENCY_LIMIT
    /\ \E j \in 1..CONCURRENCY_LIMIT : st[j] = "settled"

\* a request of the call settles: the metadata lookup, the search, the
\* content page, and the hops of an entry
RequestSettles ==
    \/ TmdbFailed \/ TmdbNoTitle \/ TmdbOk
    \/ SearchCacheHit \/ SearchCacheMiss
    \/ SearchFetchFailed \/ SearchNoMatch \/ SearchMatch
    \/ FetchPageFailed \/ FetchPageOk
    \/ \E i \in Items :
          \/ SourceThrows(i) \/ SourceNull(i) \/ SourceResolved(i)
          \/ CloudThrows(i) \/ CloudLinks(i)

\* a continuation that is ready runs: the .then callback of a completed
\* entry and the resumption of runQueue after its await
ContinuationRuns ==
    \/ \E i \in Items : ThenCallback(i)
    \/ RaceResume
    \/ AllResume

\* every HTTP request eventually completes or fails, and the event loop
\* runs every continuation that is ready
SpecLive ==
    /\ Init /\ [][Next]_vars
    /\ WF_vars(RequestSettles)
    /\ WF_vars(ContinuationRuns)

\* processItem starts on entry i
Admitted(i) == st[i] \notin {"source", "cloud"} /\ st'[i] \in {"source", "cloud"}

MAX_RETRIES == 3

\* an attempt that ends without any response (timeout, connection failure)
\* is recorded as status 0
NetworkError == 0

\* the statuses the origin answers with
Statuses == {200, 204, 301, 404, 499, 500, 503}

\* validateStatus: (status) => status >= 200 && status < 500
validateStatusBelow400(status) == status >= 200 /\ status < 400
validateStatus(status) == status >= 200 /\ status < 500

\* client.get resolves (otherwise it rejects and the catch block runs)
Resolves(o) == o # NetworkError /\ validateStatus(o)

\* for (let i = 0; i < MAX_RETRIES; i++)
LoopTestOffByOne(i) == i <= MAX_RETRIES
LoopTest(i) == i < MAX_RETRIES

RECURSIVE Pow2(_)
Pow2(n) == IF n = 0 THEN 1 ELSE 2 * Pow2(n - 1)

InitFetch ==
    /\ fpc = "get" /\ fi = 0 /\ attempts = <<>> /\ delays = <<>>
    /\ fret = "pending"
    /\ StreamIdle /\ RedirectIdle /\ SearchIdle /\ CloudIdle /\ EvalIdle

notFetch == <<streamVars, redirectVars, searchVars, cloudVars, evalVars>>

\* await client.get(...) resolves; return response.data
GetResolves ==
    /\ fpc = "get"
    /\ \E o \in Statuses :
         /\ Resolves(o)
         /\ attempts' = Append(attempts, o)
         /\ fret' = <<"body", Len(attempts) + 1>>
    /\ fpc' = "returned"
    /\ UNCHANGED <<fi, delays>>
    /\ UNCHANGED notFetch

\* await client.get(...) rejects; the catch block starts the backoff timer
GetRejects ==
    /\ fpc = "get"
    /\ \E o \in Statuses \cup {NetworkError} :
         /\ ~Resolves(o)
         /\ attempts' = Append(attempts, o)
    /\ fpc' = "backoff"
    /\ UNCHANGED <<fi, delays, fret>>
    /\ UNCHANGED notFetch

\* the timer of 1000 * Math.pow(2, i) fires; i++; the loop test; then the
\* next client.get or return null
BackoffDone ==
    /\ fpc = "backoff"
    /\ delays' = Append(delays, 1000 * Pow2(fi))
    /\ fi' = fi + 1
    /\ IF LoopTest(fi + 1)
       THEN fpc' = "get" /\ UNCHANGED fret
       ELSE fpc' = "returned" /\ fret' = "null"
    /\ UNCHANGED attempts
    /\ UNCHANGED notFetch

NextFetch == GetResolves \/ GetRejects \/ BackoffDone

SpecFetch == InitFetch /\ [][NextFetch]_vars

\* the attempts made and the value returned, given the outcomes that
\* count as a failed attempt
FetchShape(failed) ==
    /\ Len(attempts) <= MAX_RETRIES
    /\ \A k \in 1..(Len(attempts) - 1) : attempts[k] \in failed
    /\ fpc = "returned" =>
          IF attempts # <<>> /\ Resolves(attempts[Len(attempts)])
          THEN fret = <<"body", Len(attempts)>>
          ELSE /\ fret = "null"
               /\ Len(attempts) = MAX_RETRIES
               /\ \A k \in 1..Len(attempts) : attempts[k] \in failed
    /\ fpc # "returned" => fret = "pending"

NetworkLevel == {NetworkError}
Rejected == {o \in Statuses \cup {NetworkError} : ~Resolves(o)}

\* C5 as stated: at most MAX_RETRIES attempts, attempt k+1 only if attempt
\* k failed at network level, the body of the first successful attempt is
\* returned at once, and after MAX_RETRIES failures the result is null
C5_AsStated == FetchShape(NetworkLevel)

\* C5 amended: at most MAX_RETRIES attempts, attempt k+1 only if attempt k
\* failed, that is, ended in a network-level failure or in a response whose
\* status is outside [200, 500); the body of the first attempt that did not
\* fail is returned at once, and after MAX_RETRIES failures the result is
\* null
C5_RetryBound == FetchShape(Rejected)

C5_Witness ==
    /\ fpc = "returned" /\ fret = <<"body", MAX_RETRIES>>
    /\ attempts[1] = NetworkError /\ attempts[2] = 503

\* C20: an attempt answered with a status in [200, 500), a 4xx included,
\* ends the call with the body of that answer and is followed by no further
\* attempt; every attempt that was followed by another one ended in a
\* network failure or in a status outside [200, 500)
C20_StatusPolicy ==
    /\ \A k \in 1..Len(attempts) :
          (attempts[k] >= 200 /\ attempts[k] < 500) =>
              /\ k = Len(attempts)
              /\ fpc = "returned"
              /\ fret = <<"body", k>>
    /\ \A k \in 1..(Len(attempts) - 1) :
          \/ attempts[k] = NetworkError
          \/ attempts[k] < 200
          \/ attempts[k] >= 500

\* the first attempt is answered 404 and its body is returned
C20_Witness ==
    /\ fpc = "returned" /\ attempts = <<404>> /\ fret = <<"body", 1>>

\* ----------------------------------------------------- resolveRedirectUrl
\* A string is the sequence of its character codes (0..255).

MaxUrlLen == 2

\* the characters destination URLs are made of: "h" and "/"
UrlChars == {104, 47}

RECURSIVE StringsUpTo(_)
StringsUpTo(n) ==
    IF n = 0 THEN {<<>>}
    ELSE LET shorter == StringsUpTo(n - 1) IN
         shorter \cup {Append(x, c) : x \in shorter, c \in UrlChars}

\* the destination URLs the origin hides behind its redirect pages
Destinations == StringsUpTo(MaxUrlLen) \ {<<>>}

\* the base64 alphabet: A-Z a-z 0-9 + /
B64Char(n) ==
    IF n < 26 THEN 65 + n
    ELSE IF n < 52 THEN 97 + (n - 26)
    ELSE IF n < 62 THEN 48 + (n - 52)
    ELSE IF n = 62 THEN 43 ELSE 47

\* unbase64: the value of a character, -1 if it is not in the alphabet
\* ("-" and "_" of the URL-safe alphabet are accepted)
B64Val(c) ==
    IF c >= 65 /\ c <= 90 THEN c - 65
    ELSE IF c >= 97 /\ c <= 122 THEN c - 71
    ELSE IF c >= 48 /\ c <= 57 THEN c + 4
    ELSE IF c = 43 \/ c = 45 THEN 62
    ELSE IF c = 47 \/ c = 95 THEN 63
    ELSE 0 - 1

\* base64 encoding, as the origin applies it when it builds a token
RECURSIVE B64Enc(_)
B64Enc(b) ==
    IF b = <<>> THEN <<>>
    ELSE IF Len(b) = 1 THEN
        <<B64Char(b[1] \div 4), B64Char((b[1] % 4) * 16), 61, 61>>
    ELSE IF Len(b) = 2 THEN
        <<B64Char(b[1] \div 4), B64Char((b[1] % 4) * 16 + b[2] \div 16),
          B64Char((b[2] % 16) * 4), 61>>
    ELSE
        <<B64Char(b[1] \div 4), B64Char((b[1] % 4) * 16 + b[2] \div 16),
          B64Char((b[2] % 16) * 4 + b[3] \div 64), B64Char(b[3] % 64)>>
        \o B64Enc(SubSeq(b, 4, Len(b)))

\* Buffer.from(str, 'base64') reads the legal characters up to the first
\* "=", skipping illegal ones
RECURSIVE Sextets(_)
Sextets(str) ==
    IF str = <<>> \/ Head(str) = 61 THEN <<>>
    ELSE IF B64Val(Head(str)) < 0 THEN Sextets(Tail(str))
    ELSE <<B64Val(Head(str))>> \o Sextets(Tail(str))

RECURSIVE SextetsToBytes(_)
SextetsToBytes(v) ==
    IF Len(v) < 2 THEN <<>>
    ELSE IF Len(v) = 2 THEN <<v[1] * 4 + v[2] \div 16>>
    ELSE IF Len(v) = 3 THEN
        <<v[1] * 4 + v[2] \div 16, (v[2] % 16) * 16 + v[3] \div 4>>
    ELSE
        <<v[1] * 4 + v[2] \div 16, (v[2] % 16) * 16 + v[3] \div 4,
          (v[3] % 4) * 64 + v[4]>>
        \o SextetsToBytes(SubSeq(v, 5, Len(v)))

\* const atob = (str) => Buffer.from(str, 'base64').toString('binary')
atob(str) == SextetsToBytes(Sextets(str))

Rot13Char(c) ==
    IF c >= 65 /\ c <= 90 THEN 65 + ((c - 65 + 13) % 26)
    ELSE IF c >= 97 /\ c <= 122 THEN 97 + ((c - 97 + 13) % 26)
    ELSE c

\* require('rot13-cipher')
rot13Cipher(str) == [k \in 1..Len(str) |-> Rot13Char(str[k])]

\* {"o":"   and   {"x":"   and   "}
OpenO == <<123, 34, 111, 34, 58, 34>>
OpenX == <<123, 34, 120, 34, 58, 34>>
CloseObject == <<34, 125>>

\* JSON.stringify({o: value}) and JSON.stringify({x: value})
JsonO(value) == OpenO \o value \o CloseObject
JsonX(value) == OpenX \o value \o CloseObject

PlainStringBody(str) ==
    \A k \in 1..Len(str) : str[k] >= 32 /\ str[k] # 34 /\ str[k] # 92

\* JSON.parse, for the texts of the model: an object with the one string
\* member o, an object without a member o, or not JSON at all (it throws)
JSONparse(text) ==
    LET n == Len(text)
        wrapped(open) ==
            /\ n >= 8
            /\ SubSeq(text, 1, 6) = open
            /\ SubSeq(text, n - 1, n) = CloseObject
            /\ PlainStringBody(SubSeq(text, 7, n - 2))
    IN  IF wrapped(OpenO)
        THEN [ok |-> TRUE, hasO |-> TRUE, o |-> SubSeq(text, 7, n - 2)]
        ELSE IF wrapped(OpenX) \/ text = <<123, 125>>
        THEN [ok |-> TRUE, hasO |-> FALSE, o |-> <<>>]
        ELSE [ok |-> FALSE, hasO |-> FALSE, o |-> <<>>]

\* return values: null, a string, or the cached envelope object itself
Null == [kind |-> "null", value |-> <<>>]
Str(v) == [kind |-> "string", value |-> v]
Envelope(v) == [kind |-> "object", value |-> v]
Threw == [kind |-> "threw", value |-> <<>>]
Pending == [kind |-> "pending", value |-> <<>>]

\* JavaScript truthiness of a string
Truthy(str) == str # <<>>

\* the token the origin builds for a payload so that the chain of
\* resolveRedirectUrl undoes it: the inverse of each decoding step, last
\* step first
Encode(text) == B64Enc(B64Enc(rot13Cipher(B64Enc(text))))

\* base64(rot13(base64(base64(text))))
EncodeOtherOrder(text) == B64Enc(rot13Cipher(B64Enc(B64Enc(text))))

Page(kind, dest, pattern, token, meta) ==
    [kind |-> kind, dest |-> dest, pattern |-> pattern, token |-> token,
     meta |-> meta]

NoPage == Page("none", <<>>, FALSE, <<>>, <<>>)

\* the redirect pages the origin may answer with.  pattern: the page holds
\* 'o','<token>'; meta: the url= value of its meta-refresh tag, if any
Pages ==
    {Page("encoded", d, TRUE, Encode(JsonO(B64Enc(d))), <<>>) :
        d \in Destinations}
    \cup {Page("otherOrder", d, TRUE, EncodeOtherOrder(JsonO(B64Enc(d))), <<>>) :
        d \in Destinations}
    \cup {Page("notJson", d, TRUE, Encode(d), <<>>) : d \in Destinations}
    \cup {Page("noField", d, TRUE, Encode(JsonX(B64Enc(d))), d) :
        d \in Destinations}
    \cup {Page("metaRefresh", d, FALSE, <<>>, d) : d \in Destinations}
    \cup {Page("malformed", <<>>, TRUE, <<33, 33, 33>>, <<>>),
          Page("malformed", <<>>, TRUE, <<>>, <<>>),
          Page("malformed", <<>>, TRUE, <<104, 61, 104>>, <<>>),
          Page("noField", <<>>, TRUE, Encode(<<123, 125>>), <<>>),
          Page("emptyField", <<>>, TRUE, Encode(JsonO(<<>>)), <<>>),
          Page("emptyDest", <<>>, TRUE, Encode(JsonO(<<61>>)), <<>>),
          Page("plain", <<>>, FALSE, <<>>, <<>>)}

\* the redirect URLs of the entries: "h/h", "hh" and "h"
RedirectUrls == {<<104, 47, 104>>, <<104, 104>>, <<104>>}

IsAlnum(c) ==
    \/ c >= 48 /\ c <= 57
    \/ c >= 65 /\ c <= 90
    \/ c >= 97 /\ c <= 122

\* str.replace(/[^a-z0-9]/gi, '')
RECURSIVE StripNonAlnum(_)
StripNonAlnum(str) ==
    IF str = <<>> THEN <<>>
    ELSE IF IsAlnum(Head(str)) THEN <<Head(str)>> \o StripNonAlnum(Tail(str))
    ELSE StripNonAlnum(Tail(str))

\* `redirect_v3_${redirectUrl.replace(/[^a-z0-9]/gi, '')}`
RedirectKey(url) ==
    <<114, 101, 100, 105, 114, 101, 99, 116, 95, 118, 51, 95>>
    \o StripNonAlnum(url)

RedirectKeys == {RedirectKey(u) : u \in RedirectUrls}

\* The cache store (../utils/redisCache): a key/value store with a time to
\* live.  An entry is the envelope {data: ...} that was saved and the time
\* it expires at; a lookup at time t answers with the entry or with a miss.
Miss == [present |-> FALSE, data |-> <<>>, expires |-> 0]
getFromCache(c, key, t) ==
    IF c[key].present /\ t < c[key].expires THEN c[key] ELSE Miss
saveToCache(c, key, data, t, ttl) ==
    [c EXCEPT ![key] = [present |-> TRUE, data |-> data, expires |-> t + ttl]]

\* 86400 * 3: the time to live of a redirect entry
REDIRECT_TTL == 259200

\* if (cached) return cached.data || cached
CachedValue(cached) ==
    IF Truthy(cached.data) THEN Str(cached.data) ELSE Envelope(cached.data)

\* steps 1 to 4: atob -> atob -> rot13 -> atob
DecodeChainOtherOrder(token) == atob(atob(rot13Cipher(atob(token))))
DecodeChain(token) == atob(rot13Cipher(atob(atob(token))))

\* if (!redirectDataMatch) { logWarn(...); return null; }
NoPatternFallsBack(page) == IF Truthy(page.meta) THEN Str(page.meta) ELSE Null
NoPatternResult(page) == Null

\* catch (e) { console.error(...) } ... return null
DecodeErrorUncaught == Threw
DecodeErrorResult == Null

\* the try block of resolveRedirectUrl on the fetched page: the value
\* returned and whether the resolution is saved
Resolve(page) ==
    IF ~page.pattern
    THEN [ret |-> NoPatternResult(page), save |-> FALSE]
    ELSE LET redirectData == JSONparse(DecodeChain(page.token)) IN
         IF ~redirectData.ok
         THEN [ret |-> DecodeErrorResult, save |-> FALSE]
         ELSE IF redirectData.hasO /\ Truthy(redirectData.o)
         THEN [ret |-> Str(atob(redirectData.o)), save |-> TRUE]
         ELSE [ret |-> Null, save |-> FALSE]

InitRedirect ==
    /\ cacheEnabled \in BOOLEAN
    /\ rpc = "idle"
    /\ redirectUrl = <<>>
    /\ rpage = NoPage
    /\ rret = Pending
    /\ rcache = [k \in RedirectKeys |-> Miss]
    /\ rcache0 = [k \in RedirectKeys |-> Miss]
    /\ StreamIdle /\ FetchIdle /\ SearchIdle /\ CloudIdle /\ EvalIdle

notRedirect == <<streamVars, fetchVars, searchVars, cloudVars, evalVars>>

\* resolveRedirectUrl(u) is called: the key is built and the cache asked,
\* or with the cache disabled the page is requested at once
RedirectCall ==
    /\ rpc \in {"idle", "returned"}
    /\ \E u \in RedirectUrls : redirectUrl' = u
    /\ rpc' = IF cacheEnabled THEN "cacheGet" ELSE "fetch"
    /\ rpage' = NoPage
    /\ rret' = Pending
    /\ rcache0' = rcache
    /\ UNCHANGED <<cacheEnabled, rcache>>
    /\ UNCHANGED notRedirect

\* getFromCache settles with an entry
RedirectCacheHit ==
    /\ rpc = "cacheGet"
    /\ getFromCache(rcache, RedirectKey(redirectUrl), now).present
    /\ rret' = CachedValue(getFromCache(rcache, RedirectKey(redirectUrl), now))
    /\ rpc' = "returned"
    /\ UNCHANGED <<cacheEnabled, redirectUrl, rpage, rcache, rcache0>>
    /\ UNCHANGED notRedirect

\* getFromCache settles with a miss; fetchText(redirectUrl) is called
RedirectCacheMiss ==
    /\ rpc = "cacheGet"
    /\ ~getFromCache(rcache, RedirectKey(redirectUrl), now).present
    /\ rpc' = "fetch"
    /\ UNCHANGED <<cacheEnabled, redirectUrl, rpage, rret, rcache, rcache0>>
    /\ UNCHANGED notRedirect

\* fetchText returned null
RedirectFetchFailed ==
    /\ rpc = "fetch"
    /\ rret' = Null
    /\ rpc' = "returned"
    /\ UNCHANGED <<cacheEnabled, redirectUrl, rpage, rcache, rcache0>>
    /\ UNCHANGED notRedirect

\* fetchText returned a page: decode, save, return
RedirectFetched ==
    /\ rpc = "fetch"
    /\ \E page \in Pages :
         LET r == Resolve(page) IN
         /\ rpage' = page
         /\ rret' = r.ret
         /\ rcache' = IF cacheEnabled /\ r.save
                       THEN saveToCache(rcache, RedirectKey(redirectUrl),
                                        r.ret.value, now, REDIRECT_TTL)
                       ELSE rcache
    /\ rpc' = "returned"
    /\ UNCHANGED <<cacheEnabled, redirectUrl, rcache0>>
    /\ UNCHANGED notRedirect

NextRedirect ==
    \/ RedirectCall
    \/ RedirectCacheHit
    \/ RedirectCacheMiss
    \/ RedirectFetchFailed
    \/ RedirectFetched

SpecRedirect == InitRedirect /\ [][NextRedirect]_vars

Decoded == rpc = "returned" /\ rpage.kind # "none"

\* C8 as stated: a page whose token is
\* base64(rot13(base64(base64(JSON {o: base64(d)})))) resolves to d
C8_AsStated ==
    (Decoded /\ rpage.kind = "otherOrder") => rret = Str(rpage.dest)

\* C8 amended: a page whose token is
\* base64(base64(rot13(base64(JSON {o: base64(d)})))), the inverse of the
\* decoding steps applied last step first, resolves to exactly d
C8_RoundTrip ==
    (Decoded /\ rpage.kind = "encoded") => rret = Str(rpage.dest)

C8_Witness ==
    /\ Decoded /\ rpage.kind = "encoded" /\ Len(rpage.dest) = MaxUrlLen
    /\ rret = Str(rpage.dest)

\* C9: a page whose token fails at a decoding stage (malformed base64, a
\* payload that is not JSON, JSON without the field o) makes the call
\* return null without throwing and leaves the redirect cache as it was
C9_DecodeFailureIsNull ==
    (Decoded /\ rpage.kind \in {"malformed", "notJson", "noField"}) =>
        rret = Null /\ rcache = rcache0

C9_Witness ==
    /\ Decoded /\ rpage.kind = "notJson" /\ rret = Null /\ cacheEnabled
    /\ \E k \in RedirectKeys : rcache[k].present

\* C10 as stated: a page without the 'o' pattern and with a meta-refresh
\* url= value resolves to that value
C10_AsStated ==
    (Decoded /\ ~rpage.pattern /\ Truthy(rpage.meta)) =>
        rret = Str(rpage.meta)

\* C10 amended: a page without the 'o' pattern resolves to null (no
\* redirect) and nothing is cached, also when it has a meta-refresh tag
\* with a url= value: the decoder has no fallback
C10_NoFallback ==
    (Decoded /\ ~rpage.pattern) => rret = Null /\ rcache = rcache0

C10_Witness ==
    /\ Decoded /\ rpage.kind = "metaRefresh" /\ Truthy(rpage.meta)
    /\ rret = Null

\* C28: resolveRedirectUrl returns null or a string, also when it is
\* answered from the cache with an entry whose stored destination is the
\* empty string: the value the call that saved the entry returned
C28_CacheHitValue ==
    rpc = "returned" => rret.kind \in {"null", "string"}

\* ----------------------------------------------------------- fetchPageUrl
MaxCards == 2
MaxTicks == 2

\* the clock advances in steps of half a day
TickSeconds == 43200

\* the time to live of a search entry
SEARCH_TTL == 86400

\* 'https://4khdhub.fans'
BASE_URL ==
    <<104, 116, 116, 112, 115, 58, 47, 47, 52, 107, 104, 100, 104, 117, 98,
      46, 102, 97, 110, 115>>

\* the titles the metadata lookup gives: "h-hhh" and "h hhh"
Titles == {<<104, 45, 104, 104, 104>>, <<104, 32, 104, 104, 104>>}
Years == {2020}

ToLowerChar(c) == IF c >= 65 /\ c <= 90 THEN c + 32 ELSE c
toLowerCase(str) == [k \in 1..Len(str) |-> ToLowerChar(str[k])]

RECURSIVE TrimStart(_)
TrimStart(str) ==
    IF str # <<>> /\ Head(str) = 32 THEN TrimStart(Tail(str)) ELSE str

RECURSIVE TrimEnd(_)
TrimEnd(str) ==
    IF str # <<>> /\ str[Len(str)] = 32
    THEN TrimEnd(SubSeq(str, 1, Len(str) - 1))
    ELSE str

trim(str) == TrimEnd(TrimStart(str))

\* the position of the first c in str, 0 if there is none
RECURSIVE IndexOf(_, _)
IndexOf(str, c) ==
    IF str = <<>> THEN 0
    ELSE IF Head(str) = c THEN 1
    ELSE LET k == IndexOf(Tail(str), c) IN IF k = 0 THEN 0 ELSE k + 1

\* str.replace(/\[.*?]/g, '')
RECURSIVE StripBracketTags(_)
StripBracketTags(str) ==
    IF str = <<>> THEN <<>>
    ELSE IF Head(str) = 91 /\ IndexOf(Tail(str), 93) > 0
    THEN StripBracketTags(SubSeq(str, IndexOf(Tail(str), 93) + 2, Len(str)))
    ELSE <<Head(str)>> \o StripBracketTags(Tail(str))

Min2(a, b) == IF a < b THEN a ELSE b
Abs(x) == IF x < 0 THEN 0 - x ELSE x

\* one row of the edit-distance table: cur is the part of the row for the
\* character ch of a that is filled so far, prev the row before it
RECURSIVE FillRow(_, _, _, _)
FillRow(cur, prev, ch, b) ==
    IF Len(cur) = Len(b) + 1 THEN cur
    ELSE LET j == Len(cur) IN
         FillRow(Append(cur,
                        Min2(Min2(prev[j + 1] + 1, cur[j] + 1),
                             prev[j] + (IF b[j] = ch THEN 0 ELSE 1))),
                 prev, ch, b)

RECURSIVE LevRows(_, _, _)
LevRows(prev, a, b) ==
    IF a = <<>> THEN prev[Len(b) + 1]
    ELSE LevRows(FillRow(<<prev[1] + 1>>, prev, Head(a), b), Tail(a), b)

\* levenshtein.get(a, b): the edit distance
levenshtein(a, b) == LevRows([j \in 1..(Len(b) + 1) |-> j - 1], a, b)

StartsWith(str, prefix) ==
    Len(str) >= Len(prefix) /\ SubSeq(str, 1, Len(prefix)) = prefix

\* str.replace(/[^a-z0-9]/gi, '_')
UnderscoreNonAlnum(str) ==
    [k \in 1..Len(str) |-> IF IsAlnum(str[k]) THEN str[k] ELSE 95]

\* the decimal digits of n
RECURSIVE Digits(_)
Digits(n) ==
    IF n < 10 THEN <<48 + n>> ELSE Digits(n \div 10) \o <<48 + (n % 10)>>

\* `search_v3_${name.replace(/[^a-z0-9]/gi, '_')}_${year}`
SearchKey(name, year) ==
    <<115, 101, 97, 114, 99, 104, 95, 118, 51, 95>>
    \o UnderscoreNonAlnum(name) \o <<95>> \o Digits(year)

SearchKeys == {SearchKey(n, y) : n \in Titles, y \in Years}

\* a search card: the labels of its .movie-card-format, the number
\* parseInt reads from its .movie-card-meta (isNumber FALSE for NaN), the
\* text of its .movie-card-title, its href attribute (<<>> if it has none)
Card(format, isNumber, year, title, href) ==
    [format |-> format, isNumber |-> isNumber, year |-> year,
     title |-> title, href |-> href]

\* "http://m", "/s" and "x"
HrefAbsolute == <<104, 116, 116, 112, 58, 47, 47, 109>>
HrefRooted == <<47, 115>>
HrefRelative == <<120>>

CardPool ==
    {Card("Movies", TRUE, 2020, <<104, 45, 104, 104, 104>>, HrefAbsolute),
     Card("Series", TRUE, 2021,
          <<32, 72, 45, 72, 72, 72, 32, 91, 52, 75, 93, 32>>, HrefRooted),
     Card("Movies", TRUE, 2022, <<104, 47, 47, 47, 47>>, HrefRelative),
     Card("Series", TRUE, 2020, <<47, 47, 47, 47, 47>>, HrefAbsolute),
     Card("Series", TRUE, 2019, <<104, 47, 47, 47, 47>>, HrefRooted),
     Card("Movies", FALSE, 0, <<104, 45, 104, 104, 104>>, HrefRooted),
     Card("Movies", TRUE, 2019, <<104, 32, 104, 104, 104>>, <<>>)}

RECURSIVE SeqsUpTo(_, _)
SeqsUpTo(S, n) ==
    IF n = 0 THEN {<<>>}
    ELSE LET shorter == SeqsUpTo(S, n - 1) IN
         shorter \cup {Append(x, c) : x \in shorter, c \in S}

\* the search pages the origin may answer with
SearchPages == SeqsUpTo(CardPool, MaxCards)

\* the three filters on a card
HasFormat(card, isSeries) ==
    card.format = (IF isSeries THEN "Series" ELSE "Movies")
YearMatches(card, year) == card.isNumber /\ Abs(card.year - year) <= 1
TitleMatchesInclusive(card, name) ==
    levenshtein(toLowerCase(trim(StripBracketTags(card.title))),
                toLowerCase(name)) <= 5
TitleMatches(card, name) ==
    levenshtein(toLowerCase(trim(StripBracketTags(card.title))),
                toLowerCase(name)) < 5

\* the map step: a relative href is made absolute
CardHref(card) ==
    IF Truthy(card.href) /\ ~StartsWith(card.href, <<104, 116, 116, 112>>)
    THEN BASE_URL \o (IF StartsWith(card.href, <<47>>) THEN <<>> ELSE <<47>>)
         \o card.href
    ELSE card.href

\* matchingCards: the hrefs of the cards that pass the filters, in document
\* order (.get() leaves out the cards without an href)
RECURSIVE matchingCards(_, _, _, _)
matchingCards(page, name, year, isSeries) ==
    IF page = <<>> THEN <<>>
    ELSE (IF /\ HasFormat(Head(page), isSeries)
             /\ YearMatches(Head(page), year)
             /\ TitleMatches(Head(page), name)
             /\ Truthy(Head(page).href)
          THEN <<CardHref(Head(page))>> ELSE <<>>)
         \o matchingCards(Tail(page), name, year, isSeries)

\* const result = matchingCards.length > 0 ? matchingCards[0] : null
SearchResult(page, name, year, isSeries) ==
    LET m == matchingCards(page, name, year, isSeries) IN
    IF Len(m) > 0 THEN Str(m[1]) ELSE Null

\* SearchResult, tabulated over the pages and the arguments of the model
SearchResultTable ==
    [page \in SearchPages, name \in Titles, year \in Years,
     isSeries \in BOOLEAN |-> SearchResult(page, name, year, isSeries)]

\* the results the search can have for given arguments, over the pages the
\* origin may answer with
SearchResults ==
    [name \in Titles, year \in Years, isSeries \in BOOLEAN |->
        {SearchResultTable[page, name, year, isSeries] : page \in SearchPages}]

\* if (CACHE_ENABLED && result)
SavesNoResult(result) == cacheEnabled /\ result.kind = "null"
SavesEveryResult(result) == cacheEnabled
SavesResult(result) == cacheEnabled /\ result.kind = "string"

NotFound == [present |-> FALSE, url |-> <<>>, at |-> 0]

InitSearch ==
    /\ now = 0
    /\ spc = "idle"
    /\ sargs = [name |-> <<>>, year |-> 0, isSeries |-> FALSE, prev |-> NotFound]
    /\ slookup = 0
    /\ sreq = 0
    /\ sret = Pending
    /\ scache = [k \in SearchKeys |-> Miss]
    /\ found = [a \in Titles \X Years |-> NotFound]
    /\ skind = [k \in SearchKeys |-> FALSE]
    /\ cacheEnabled \in BOOLEAN
    /\ rpc = "idle" /\ redirectUrl = <<>> /\ rpage = <<>> /\ rret = <<>>
    /\ rcache = <<>> /\ rcache0 = <<>>
    /\ StreamIdle /\ FetchIdle /\ CloudIdle /\ EvalIdle

notSearch == <<streamVars, fetchVars, rpc, redirectUrl, rpage, rret, rcache,
               rcache0, cloudVars, evalVars>>

Tick ==
    /\ now < MaxTicks * TickSeconds
    /\ now' = now + TickSeconds
    /\ UNCHANGED <<spc, sargs, slookup, sreq, sret, scache, found, skind,
                   cacheEnabled>>
    /\ UNCHANGED notSearch

\* fetchPageUrl(name, year, isSeries) is called
SearchCall ==
    /\ spc \in {"idle", "returned"}
    /\ \E name \in Titles, year \in Years, isSeries \in BOOLEAN :
         sargs' = [name |-> name, year |-> year, isSeries |-> isSeries,
                   prev |-> found[<<name, year>>]]
    /\ spc' = IF cacheEnabled THEN "cacheGet" ELSE "fetch"
    /\ sreq' = IF cacheEnabled THEN 0 ELSE 1
    /\ slookup' = now
    /\ sret' = Pending
    /\ UNCHANGED <<now, scache, found, skind, cacheEnabled>>
    /\ UNCHANGED notSearch

\* the cache answers with an entry: return cached.data || cached
SearchHit ==
    /\ spc = "cacheGet"
    /\ LET cached == getFromCache(scache, SearchKey(sargs.name, sargs.year), now)
       IN /\ cached.present
          /\ sret' = CachedValue(cached)
    /\ spc' = "returned"
    /\ slookup' = now
    /\ UNCHANGED <<now, sargs, sreq, scache, found, skind,
                   cacheEnabled>>
    /\ UNCHANGED notSearch

\* the cache answers with a miss: fetchText(searchUrl) is called
SearchMiss ==
    /\ spc = "cacheGet"
    /\ ~getFromCache(scache, SearchKey(sargs.name, sargs.year), now).present
    /\ spc' = "fetch"
    /\ sreq' = sreq + 1
    /\ slookup' = now
    /\ UNCHANGED <<now, sargs, sret, scache, found, skind,
                   cacheEnabled>>
    /\ UNCHANGED notSearch

\* fetchText returned null
SearchFailed ==
    /\ spc = "fetch"
    /\ sret' = Null
    /\ spc' = "returned"
    /\ UNCHANGED <<now, sargs, slookup, sreq, scache, found, skind,
                   cacheEnabled>>
    /\ UNCHANGED notSearch

\* fetchText returned the search page: filter, pick, save, return
SearchFetched ==
    /\ spc = "fetch"
    /\ \E result \in SearchResults[sargs.name, sargs.year, sargs.isSeries] :
         LET key == SearchKey(sargs.name, sargs.year)
         IN /\ sret' = result
            /\ scache' = IF SavesResult(result)
                          THEN saveToCache(scache, key, result.value, now,
                                           SEARCH_TTL)
                          ELSE scache
            /\ found' = IF result.kind = "string"
                         THEN [found EXCEPT ![<<sargs.name, sargs.year>>] =
                                 [present |-> TRUE, url |-> result.value,
                                  at |-> now]]
                         ELSE found
            /\ skind' = IF SavesResult(result)
                         THEN [skind EXCEPT ![key] = sargs.isSeries]
                         ELSE skind
    /\ spc' = "returned"
    /\ UNCHANGED <<now, sargs, slookup, sreq, cacheEnabled>>
    /\ UNCHANGED notSearch

NextSearch ==
    \/ Tick
    \/ SearchCall
    \/ SearchHit
    \/ SearchMiss
    \/ SearchFailed
    \/ SearchFetched

SpecSearch == InitSearch /\ [][NextSearch]_vars

\* C6: with the cache enabled, once a call has searched, found and returned
\* a page URL, a later call with the same (title, year) whose lookup falls
\* within SEARCH_TTL of it returns that URL and issues no search request
C6_CacheShortCircuit ==
    (/\ cacheEnabled
     /\ spc = "returned"
     /\ sargs.prev.present
     /\ slookup < sargs.prev.at + SEARCH_TTL) =>
        sret = Str(sargs.prev.url) /\ sreq = 0

C6_Witness ==
    /\ cacheEnabled
    /\ spc = "returned"
    /\ sargs.prev.present
    /\ slookup > sargs.prev.at
    /\ slookup < sargs.prev.at + SEARCH_TTL
    /\ sret = Str(sargs.prev.url) /\ sreq = 0

\* ---- the card filter of fetchPageUrl on one search page
\* the filter and the pick of fetchPageUrl applied to a page, a target
\* title, a target year and a kind
notEval == <<streamVars, fetchVars, redirectVars, searchVars, cloudVars>>

InitMatch ==
    /\ epc = "ready"
    /\ ein \in [page : SearchPages, name : Titles, year : Years,
                 isSeries : BOOLEAN]
    /\ eout = <<>>
    /\ StreamIdle /\ FetchIdle /\ RedirectIdle /\ SearchIdle /\ CloudIdle

MatchCards ==
    /\ epc = "ready"
    /\ eout' = SearchResultTable[ein.page, ein.name, ein.year, ein.isSeries]
    /\ epc' = "done"
    /\ UNCHANGED ein
    /\ UNCHANGED notEval

NextMatch == MatchCards

SpecMatch == InitMatch /\ [][NextMatch]_vars

\* the edit distance between the cleaned title of a card (bracketed tags
\* stripped, trimmed, case-folded) and the case-folded target title
TitleDistance(card, name) ==
    levenshtein(toLowerCase(trim(StripBracketTags(card.title))),
                toLowerCase(name))

\* the cards of the page that C11 counts as candidates: requested kind,
\* declared year within 1 of the target year, edit distance below 5 (and
\* an href to return)
Candidates ==
    {k \in 1..Len(ein.page) :
        /\ ein.page[k].format = (IF ein.isSeries THEN "Series" ELSE "Movies")
        /\ ein.page[k].isNumber
        /\ ein.page[k].year - ein.year \in {-1, 0, 1}
        /\ TitleDistance(ein.page[k], ein.name) < 5
        /\ ein.page[k].href # <<>>}

\* C11: the search returns the URL of the first card in document order
\* that has the requested kind, a declared year within 1 of the target
\* year and an edit distance below 5 between its cleaned title and the
\* target title; a card at distance 5 or more is never the one selected,
\* and when no card qualifies the result is null
C11_FuzzyThreshold ==
    epc = "done" =>
        IF Candidates = {} THEN eout = Null
        ELSE \E k \in Candidates :
                /\ \A j \in Candidates : k <= j
                /\ eout = Str(CardHref(ein.page[k]))

\* a card at distance exactly 5 with a matching year and kind comes first
\* and the card at distance 4 after it is the one selected
C11_Witness ==
    /\ epc = "done" /\ Len(ein.page) = 2
    /\ Candidates = {2}
    /\ ein.page[1].format = ein.page[2].format
    /\ ein.page[1].year = ein.year
    /\ TitleDistance(ein.page[1], ein.name) = 5
    /\ TitleDistance(ein.page[2], ein.name) = 4
    /\ eout = Str(CardHref(ein.page[2]))

\* C12: a URL that fetchPageUrl returns from the cache (no search request
\* was issued) belongs to a card of the requested kind: the entry under the
\* key of the call was saved by a call with the same isSeries, so a call
\* for a series never returns a page that a call for a movie stored
C12_KindOfReturnedUrl ==
    (spc = "returned" /\ sret.kind = "string" /\ sreq = 0) =>
        skind[SearchKey(sargs.name, sargs.year)] = sargs.isSeries

\* -------------------------------------------------------- extractHubCloud
\* the clock of this specification advances in steps of half an hour
CloudTickSeconds == 1800
MaxCloudTicks == 2
\* the number of calls of extractHubCloud in a behaviour
MaxCalls == 3

\* the time to live of a final-links entry
HUBCLOUD_TTL == 3600

\* str.includes(part)
RECURSIVE Includes(_, _)
Includes(str, part) ==
    IF Len(str) < Len(part) THEN FALSE
    ELSE IF SubSeq(str, 1, Len(part)) = part THEN TRUE
    ELSE Includes(Tail(str), part)

\* str.replace(pattern, replacement) with a string pattern: the first
\* occurrence only
RECURSIVE ReplaceFirst(_, _, _)
ReplaceFirst(str, pattern, replacement) ==
    IF Len(str) < Len(pattern) THEN str
    ELSE IF SubSeq(str, 1, Len(pattern)) = pattern
    THEN replacement \o SubSeq(str, Len(pattern) + 1, Len(str))
    ELSE <<Head(str)>> \o ReplaceFirst(Tail(str), pattern, replacement)

IsDigit(c) == c >= 48 /\ c <= 57

\* the value of a string of digits
RECURSIVE DigitsValue(_)
DigitsValue(str) ==
    IF str = <<>> THEN 0
    ELSE 10 * DigitsValue(SubSeq(str, 1, Len(str) - 1))
         + (str[Len(str)] - 48)

RECURSIVE DigitPrefixLen(_)
DigitPrefixLen(str) ==
    IF str = <<>> \/ ~IsDigit(Head(str)) THEN 0
    ELSE 1 + DigitPrefixLen(Tail(str))

\* bytes.parse(text) for a whole number followed by MB or GB, or a whole
\* number alone; 0 stands for its null (both are falsy)
bytesParse(text) ==
    LET n == DigitPrefixLen(text)
        unit == toLowerCase(TrimStart(SubSeq(text, n + 1, Len(text))))
        number == DigitsValue(SubSeq(text, 1, n))
    IN  IF n = 0 THEN 0
        ELSE IF unit = <<>> THEN number
        ELSE IF unit = <<109, 98>> THEN number * 1048576
        ELSE IF unit = <<103, 98>> THEN number * 1073741824
        ELSE 0

\* `hubcloud_v3_${hubCloudUrl.replace(/[^a-z0-9]/gi, '')}`
\* the key of extractHubCloud built with the prefix of resolveRedirectUrl
HubCloudKeyRedirectPrefix(url) == RedirectKey(url)
\* `hubcloud_v3_${hubCloudUrl.replace(/[^a-z0-9]/gi, '')}`
HubCloudKey(url) ==
    <<104, 117, 98, 99, 108, 111, 117, 100, 95, 118, 51, 95>>
    \o StripNonAlnum(url)

\* the cloud URLs of the entries: "h/h" and "hh"
CloudUrls == {<<104, 47, 104>>, <<104, 104>>}
HubCloudKeys == {HubCloudKey(u) : u \in CloudUrls}

\* the metadata of the entries: {bytes, height, title}, titles "E" and ""
BaseMetas ==
    {[bytes |-> 0, height |-> 1080, title |-> <<69>>],
     [bytes |-> 2097152, height |-> 0, title |-> <<>>]}

\* "http://l", where the final links are
FinalLinksUrl == <<104, 116, 116, 112, 58, 47, 47, 108>>

\* the interstitial pages: varUrl is the value of var url = '...' (<<>> if
\* the page has none), meta the url= value of a meta-refresh tag
CloudPage(varUrl, meta) == [varUrl |-> varUrl, meta |-> meta]

CloudPages ==
    {CloudPage(FinalLinksUrl, <<>>), CloudPage(<<>>, FinalLinksUrl),
     CloudPage(<<>>, <<>>)}

\* an anchor of the final-links page: text, href (<<>> if absent), class
Anchor(text, href, class) == [text |-> text, href |-> href, class |-> class]

AnchorFsl == Anchor(<<70, 83, 76, 32, 83, 101, 114, 118, 101, 114>>,
                    <<104, 116, 116, 112, 58, 47, 47, 102>>, <<98, 116, 110>>)
AnchorPixel ==
    Anchor(<<80, 105, 120, 101, 108, 83, 101, 114, 118, 101, 114, 32, 58, 32, 50>>,
           <<47, 117, 47, 97, 98, 99>>, <<>>)
AnchorFast == Anchor(<<70, 97, 115, 116, 32, 83, 101, 114, 118, 101, 114>>,
                     <<104, 116, 116, 112, 58, 47, 47, 112, 47, 117, 47, 120>>,
                     <<98, 116, 110>>)
AnchorInstant == Anchor(<<73, 110, 115, 116, 97, 110, 116>>,
                        <<104, 116, 116, 112, 58, 47, 47, 100>>, <<>>)
AnchorButton ==
    Anchor(<<84, 101, 108, 101, 103, 114, 97, 109>>,
           <<104, 116, 116, 112, 58, 47, 47, 102>>,
           <<98, 116, 110, 32, 98, 116, 110, 45, 115, 117, 99, 99, 101, 115, 115>>)
AnchorOther == Anchor(<<84, 101, 108, 101, 103, 114, 97, 109>>,
                      <<104, 116, 116, 112, 58, 47, 47, 100>>, <<98, 116, 110>>)
AnchorHash == Anchor(<<70, 83, 76>>, <<35>>, <<>>)
AnchorNoHref == Anchor(<<70, 83, 76>>, <<>>, <<>>)

\* the final-links pages: the text of <title>, of #size, and the anchors
FinalPage(title, size, anchors) ==
    [title |-> title, size |-> size, anchors |-> anchors]

FinalPages ==
    {FinalPage(<<84, 32, 45, 32, 72, 117, 98, 67, 108, 111, 117, 100>>,
               <<120>>,
               <<AnchorFsl, AnchorPixel, AnchorFast, AnchorButton,
                 AnchorInstant>>),
     FinalPage(<<>>, <<49, 32, 71, 66>>,
               <<AnchorOther, AnchorHash, AnchorNoHref>>)}

Link(source, url, meta) == [source |-> source, url |-> url, meta |-> meta]

keepPixelUrl(u) == u
\* const cleanPixelUrl = (u) => u.replace('/u/', '/api/file/')
cleanPixelUrl(u) ==
    ReplaceFirst(u, <<47, 117, 47>>,
                 <<47, 97, 112, 105, 47, 102, 105, 108, 101, 47>>)

\* the metadata of the entry kept wherever the entry has a value
currentMetaEntryFirst(page, baseMeta) ==
    LET sizeText == page.size
        titleText ==
            trim(ReplaceFirst(page.title,
                 <<32, 45, 32, 72, 117, 98, 67, 108, 111, 117, 100>>, <<>>))
    IN  [bytes |-> IF baseMeta.bytes # 0 THEN baseMeta.bytes
                   ELSE bytesParse(sizeText),
         height |-> baseMeta.height,
         title |-> IF Truthy(baseMeta.title) THEN baseMeta.title ELSE titleText]
\* currentMeta
currentMeta(page, baseMeta) ==
    LET sizeText == page.size
        titleText ==
            trim(ReplaceFirst(page.title,
                 <<32, 45, 32, 72, 117, 98, 67, 108, 111, 117, 100>>, <<>>))
    IN  [bytes |-> IF Truthy(sizeText)
                   THEN (IF bytesParse(sizeText) # 0 THEN bytesParse(sizeText)
                         ELSE baseMeta.bytes)
                   ELSE baseMeta.bytes,
         height |-> baseMeta.height,
         title |-> IF Truthy(titleText) THEN titleText ELSE baseMeta.title]

\* $('a').each(...): the links pushed for the anchors, in document order
RECURSIVE collectLinks(_, _, _)
collectLinks(anchors, meta, res) ==
    IF anchors = <<>> THEN res
    ELSE LET a == Head(anchors)
             text == trim(a.text)
             next ==
                IF ~Truthy(a.href) \/ a.href = <<35>> THEN res
                ELSE IF \/ Includes(text, <<70, 83, 76>>)
                        \/ Includes(text, <<68, 111, 119, 110, 108, 111, 97,
                                            100, 32, 70, 105, 108, 101>>)
                THEN Append(res, Link("FSL", a.href, meta))
                ELSE IF \/ Includes(text, <<80, 105, 120, 101, 108, 83, 101,
                                            114, 118, 101, 114>>)
                        \/ Includes(text, <<70, 97, 115, 116, 32, 83, 101, 114,
                                            118, 101, 114>>)
                THEN Append(res, Link("PixelServer", cleanPixelUrl(a.href), meta))
                ELSE IF \/ Includes(text, <<73, 110, 115, 116, 97, 110, 116>>)
                        \/ Includes(a.class, <<98, 116, 110, 45, 115, 117, 99,
                                               99, 101, 115, 115>>)
                THEN (IF \E k \in 1..Len(res) : res[k].url = a.href THEN res
                      ELSE Append(res, Link("Direct", a.href, meta)))
                ELSE res
         IN  collectLinks(Tail(anchors), meta, next)

\* the links of a final-links page, tabulated over the pages and the
\* metadata of the model
FinalLinksTable ==
    [page \in FinalPages, baseMeta \in BaseMetas |->
        collectLinks(page.anchors, currentMeta(page, baseMeta), <<>>)]

\* if (CACHE_ENABLED && results.length > 0)
SavesAnyLinks(links) == cacheEnabled
SavesLinks(links) == cacheEnabled /\ Len(links) > 0

NoCall == [present |-> FALSE, ret |-> <<>>, at |-> 0]
NoHistory == [last |-> NoCall, resolved |-> NoCall]

\* the calls of extractHubCloud that can be in flight together (processItem
\* runs in several workers)
Callers == {"a", "b"}

\* what a cache lookup at time t finds in the history h of its URL: the
\* set of links the last call returned, and the set the last resolution
\* gave, each if less than HUBCLOUD_TTL ago (a sequence of none or one)
Recent(call, t) ==
    IF call.present /\ t < call.at + HUBCLOUD_TTL THEN <<call.ret>> ELSE <<>>
Seen(h, t) ==
    [last |-> Recent(h.last, t),
     resolved |-> Recent(h.resolved, t),
     earlier |-> h.resolved.present /\ h.resolved.at < t]
NothingSeen == [last |-> <<>>, resolved |-> <<>>, earlier |-> FALSE]

NoArgs == [url |-> <<>>, baseMeta |-> [bytes |-> 0, height |-> 0,
                                       title |-> <<>>],
           prev |-> NothingSeen]

NoReturn == [present |-> FALSE, args |-> NoArgs, links |-> <<>>]

InitCloud ==
    /\ hpc = [c \in Callers |-> "idle"]
    /\ hargs = [c \in Callers |-> NoArgs]
    /\ hfinal = [c \in Callers |-> <<>>]
    /\ hret = NoReturn
    /\ hcache = [k \in HubCloudKeys |-> Miss]
    /\ hcalls = 0
    /\ hist = [u \in CloudUrls |-> NoHistory]
    /\ cacheEnabled \in BOOLEAN
    /\ now = 0 /\ spc = "idle" /\ sargs = <<>> /\ slookup = 0 /\ sreq = 0
    /\ sret = <<>> /\ scache = <<>> /\ found = <<>>
    /\ skind = <<>>
    /\ rpc = "idle" /\ redirectUrl = <<>> /\ rpage = <<>> /\ rret = <<>>
    /\ rcache = <<>> /\ rcache0 = <<>>
    /\ StreamIdle /\ FetchIdle /\ EvalIdle

notCloud == <<streamVars, fetchVars, rpc, redirectUrl, rpage, rret, rcache,
              rcache0, spc, sargs, slookup, sreq, sret, scache, found,
              skind, evalVars>>

CloudTick ==
    /\ now < MaxCloudTicks * CloudTickSeconds
    /\ now' = now + CloudTickSeconds
    /\ UNCHANGED <<cloudVars, cacheEnabled>>
    /\ UNCHANGED notCloud

\* the history after call c resolved its URL from the origin to links: it
\* is the last resolution of that URL, and no other URL of the same key
\* keeps one
Resolved(h, c, links) ==
    [u \in CloudUrls |->
        IF u = hargs[c].url
        THEN [h[u] EXCEPT !.resolved = [present |-> TRUE, ret |-> links,
                                        at |-> now]]
        ELSE IF HubCloudKey(u) = HubCloudKey(hargs[c].url)
        THEN [h[u] EXCEPT !.resolved = NoCall]
        ELSE h[u]]

\* call c, whose cache lookup saw prev, returns links: it is the last call
\* of its URL
HubCloudReturns(c, prev, links, h) ==
    /\ hret' = [present |-> TRUE,
                args |-> [hargs[c] EXCEPT !.prev = prev],
                links |-> links]
    /\ hpc' = [hpc EXCEPT ![c] = "idle"]
    /\ hargs' = [hargs EXCEPT ![c] = NoArgs]
    /\ hfinal' = [hfinal EXCEPT ![c] = <<>>]
    /\ hist' = [h EXCEPT ![hargs[c].url].last =
                  [present |-> TRUE, ret |-> links, at |-> now]]

\* extractHubCloud(hubCloudUrl, baseMeta) is called with a URL; the call is
\* named "b" when it is made while call "a" is in flight
HubCloudCall(c) ==
    /\ hpc[c] = "idle"
    /\ c = "a" \/ hpc["a"] # "idle"
    /\ hcalls < MaxCalls
    /\ hcalls' = hcalls + 1
    /\ \E u \in CloudUrls, m \in BaseMetas :
         hargs' = [hargs EXCEPT ![c] = [url |-> u, baseMeta |-> m,
                                        prev |-> NothingSeen]]
    /\ hpc' = [hpc EXCEPT ![c] = IF cacheEnabled THEN "cacheGet"
                                 ELSE "fetchCloud"]
    /\ UNCHANGED <<now, hfinal, hret, hcache, hist, cacheEnabled>>
    /\ UNCHANGED notCloud

\* the cache answers with an entry: return cached.data || cached
HubCloudHit(c) ==
    /\ hpc[c] = "cacheGet"
    /\ LET cached == getFromCache(hcache, HubCloudKey(hargs[c].url), now) IN
       /\ cached.present
       /\ HubCloudReturns(c, Seen(hist[hargs[c].url], now), cached.data, hist)
    /\ UNCHANGED <<now, hcache, hcalls, cacheEnabled>>
    /\ UNCHANGED notCloud

\* the cache answers with a miss: fetchText(hubCloudUrl) is called
HubCloudMiss(c) ==
    /\ hpc[c] = "cacheGet"
    /\ ~getFromCache(hcache, HubCloudKey(hargs[c].url), now).present
    /\ hpc' = [hpc EXCEPT ![c] = "fetchCloud"]
    /\ hargs' = [hargs EXCEPT ![c].prev = Seen(hist[hargs[c].url], now)]
    /\ UNCHANGED <<now, hfinal, hret, hcache, hcalls, hist, cacheEnabled>>
    /\ UNCHANGED notCloud

\* fetchText(hubCloudUrl) returned null
HubCloudFetchFailed(c) ==
    /\ hpc[c] = "fetchCloud"
    /\ HubCloudReturns(c, hargs[c].prev, <<>>, hist)
    /\ UNCHANGED <<now, hcache, hcalls, cacheEnabled>>
    /\ UNCHANGED notCloud

\* the interstitial page has no var url = '...': return [] (a meta-refresh
\* tag is logged and not followed)
HubCloudNoVarUrl(c) ==
    /\ hpc[c] = "fetchCloud"
    /\ \E page \in CloudPages : ~Truthy(page.varUrl)
    /\ HubCloudReturns(c, hargs[c].prev, <<>>, hist)
    /\ UNCHANGED <<now, hcache, hcalls, cacheEnabled>>
    /\ UNCHANGED notCloud

\* the interstitial page names the final-links page, which is requested
HubCloudVarUrl(c) ==
    /\ hpc[c] = "fetchCloud"
    /\ \E page \in CloudPages :
         /\ Truthy(page.varUrl)
         /\ hfinal' = [hfinal EXCEPT ![c] = page.varUrl]
    /\ hpc' = [hpc EXCEPT ![c] = "fetchLinks"]
    /\ UNCHANGED <<now, hargs, hret, hcache, hcalls, hist,
                   cacheEnabled>>
    /\ UNCHANGED notCloud

\* fetchText(finalLinksUrl) returned null
LinksFetchFailed(c) ==
    /\ hpc[c] = "fetchLinks"
    /\ HubCloudReturns(c, hargs[c].prev, <<>>, hist)
    /\ UNCHANGED <<now, hcache, hcalls, cacheEnabled>>
    /\ UNCHANGED notCloud

\* the final-links page arrived: collect the links, save, return
LinksFetched(c) ==
    /\ hpc[c] = "fetchLinks"
    /\ \E page \in FinalPages :
         LET links == FinalLinksTable[page, hargs[c].baseMeta]
         IN /\ hcache' = IF SavesLinks(links)
                          THEN saveToCache(hcache, HubCloudKey(hargs[c].url),
                                           links, now, HUBCLOUD_TTL)
                          ELSE hcache
            /\ HubCloudReturns(c, hargs[c].prev, links,
                               IF links # <<>> THEN Resolved(hist, c, links)
                               ELSE hist)
    /\ UNCHANGED <<now, hcalls, cacheEnabled>>
    /\ UNCHANGED notCloud

NextCloud ==
    \/ CloudTick
    \/ \E c \in Callers :
        \/ HubCloudCall(c)
        \/ HubCloudHit(c)
        \/ HubCloudMiss(c)
        \/ HubCloudFetchFailed(c)
        \/ HubCloudNoVarUrl(c)
        \/ HubCloudVarUrl(c)
        \/ LinksFetchFailed(c)
        \/ LinksFetched(c)

SpecCloud == InitCloud /\ [][NextCloud]_vars

\* C7 as stated: with the cache enabled, a call with a cloud URL whose
\* lookup falls within HUBCLOUD_TTL of the return of the last call with the
\* same URL returns the identical set of links
C7_AsStated ==
    (cacheEnabled /\ hret.present) =>
        \A k \in 1..Len(hret.args.prev.last) :
            hret.links = hret.args.prev.last[k]

\* C7 amended: with the cache enabled, once a call has resolved a cloud URL
\* from the origin to a set of links that is not empty, every call with the
\* same URL whose lookup falls within HUBCLOUD_TTL of that, with no other
\* such resolution under the key of the URL in between, returns the
\* identical set, whatever the origin would answer and whatever metadata is
\* passed
C7_Idempotent ==
    (cacheEnabled /\ hret.present) =>
        \A k \in 1..Len(hret.args.prev.resolved) :
            hret.links = hret.args.prev.resolved[k]

C7_Witness ==
    /\ cacheEnabled
    /\ hret.present
    /\ hret.args.prev.resolved = <<hret.links>>
    /\ hret.args.prev.earlier
    /\ hret.links # <<>>
    /\ hret.links[1].meta.height # hret.args.baseMeta.height
    /\ hret.links[1].meta.bytes # hret.args.baseMeta.bytes

\* a URL with a scheme and a host: http:// or https:// and then a host
HasSchemeAndHost(u) ==
    \E scheme \in {<<104, 116, 116, 112, 58, 47, 47>>,
                    <<104, 116, 116, 112, 115, 58, 47, 47>>} :
        /\ StartsWith(u, scheme)
        /\ Len(u) > Len(scheme)
        /\ u[Len(scheme) + 1] # 47

\* C15: every url of a link that extractHubCloud returns is absolute, with
\* scheme and host, also when the anchor of the final-links page has a
\* relative href
C15_AbsoluteUrls ==
    hret.present =>
        \A k \in 1..Len(hret.links) : HasSchemeAndHost(hret.links[k].url)

\* ------------------------------------------- extractSourceResults: meta
\* the words an entry is written with: resolution markers, a size, a word
\* that is neither
T2160p == <<50, 49, 54, 48, 112>>
T4K == <<52, 75>>
T4k == <<52, 107>>
T1080p == <<49, 48, 56, 48, 112>>
T720p == <<55, 50, 48, 112>>
T480p == <<52, 56, 48, 112>>
T576p == <<53, 55, 54, 112>>
T1440p == <<49, 52, 52, 48, 112>>
T1GB == <<49, 32, 71, 66>>
Tx == <<120>>

Words == {T2160p, T4K, T4k, T1080p, T720p, T480p, T576p, T1440p, T1GB, Tx}

MaxWords == 2

\* the text made of the words, separated by spaces
RECURSIVE JoinWords(_)
JoinWords(ws) ==
    IF ws = <<>> THEN <<>>
    ELSE IF Len(ws) = 1 THEN ws[1]
    ELSE ws[1] \o <<32>> \o JoinWords(Tail(ws))

\* an entry of the content page: the words of its HTML and of its
\* .file-title element
SourceEntries == [html : SeqsUpTo(Words, MaxWords), title : SeqsUpTo(Words, 1)]

NoMatch == [found |-> FALSE, text |-> <<>>]

\* n digits and then p or P, at position i of str
DigitsThenP(str, i, n) ==
    /\ i + n <= Len(str)
    /\ \A k \in i..(i + n - 1) : IsDigit(str[k])
    /\ str[i + n] \in {112, 80}

\* str.match(/\d{3,4}p/i): the leftmost match, four digits before three
heightMatch(str) ==
    LET starts == {i \in 1..Len(str) :
                      DigitsThenP(str, i, 4) \/ DigitsThenP(str, i, 3)}
    IN  IF starts = {} THEN NoMatch
        ELSE LET i == CHOOSE x \in starts : \A y \in starts : x <= y
                 n == IF DigitsThenP(str, i, 4) THEN 4 ELSE 3
             IN  [found |-> TRUE, text |-> SubSeq(str, i, i + n)]

\* parseInt of a text that starts with digits
parseInt(text) == DigitsValue(SubSeq(text, 1, DigitPrefixLen(text)))

\* str.match(/a|b/i) for the alternatives given in lower case
MatchesAny(str, alternatives) ==
    \E a \in alternatives : Includes(toLowerCase(str), a)

\* the chain of  if (title.match(...) || localHtml.match(...)) height = ...
bucketHeightDigitsOnly(title, localHtml) ==
    IF MatchesAny(title, {T2160p}) \/ MatchesAny(localHtml, {T2160p})
    THEN 2160
    ELSE IF MatchesAny(title, {T1080p}) \/ MatchesAny(localHtml, {T1080p})
    THEN 1080
    ELSE IF MatchesAny(title, {T720p}) \/ MatchesAny(localHtml, {T720p})
    THEN 720
    ELSE IF MatchesAny(title, {T480p}) \/ MatchesAny(localHtml, {T480p})
    THEN 480
    ELSE 0
bucketHeight(title, localHtml) ==
    IF MatchesAny(title, {T4k, T2160p}) \/ MatchesAny(localHtml, {T4k, T2160p})
    THEN 2160
    ELSE IF MatchesAny(title, {T1080p}) \/ MatchesAny(localHtml, {T1080p})
    THEN 1080
    ELSE IF MatchesAny(title, {T720p}) \/ MatchesAny(localHtml, {T720p})
    THEN 720
    ELSE IF MatchesAny(title, {T480p}) \/ MatchesAny(localHtml, {T480p})
    THEN 480
    ELSE 0

\* let height = heightMatch ? parseInt(heightMatch[0]) : 0, and the
\* fallback when it is 0
sourceHeight(localHtml, title) ==
    LET inHtml == heightMatch(localHtml)
        match == IF inHtml.found THEN inHtml ELSE heightMatch(title)
        height == IF match.found THEN parseInt(match.text) ELSE 0
    IN  IF height = 0 THEN bucketHeight(title, localHtml) ELSE height

\* a run of digits and dots that starts at i, is followed by an optional
\* space and GB or MB, and the text it matches
SizeAt(str, i) ==
    LET run == CHOOSE n \in 0..Len(str) :
                  /\ \A k \in i..(i + n - 1) : IsDigit(str[k]) \/ str[k] = 46
                  /\ i + n > Len(str)
                     \/ ~(IsDigit(str[i + n]) \/ str[i + n] = 46)
        after == i + run
        unit == IF after <= Len(str) /\ str[after] = 32 THEN after + 1
                ELSE after
    IN  IF /\ run > 0
           /\ unit + 1 <= Len(str)
           /\ ToLowerChar(str[unit]) \in {103, 109}
           /\ ToLowerChar(str[unit + 1]) = 98
        THEN [found |-> TRUE, text |-> SubSeq(str, i, unit + 1)]
        ELSE NoMatch

\* localHtml.match(/([\d.]+ ?[GM]B)/i)
sizeMatch(str) ==
    LET starts == {i \in 1..Len(str) : SizeAt(str, i).found}
    IN  IF starts = {} THEN NoMatch
        ELSE SizeAt(str, CHOOSE x \in starts : \A y \in starts : x <= y)

\* const meta = { bytes, height, title }
sourceMeta(localHtml, title) ==
    [bytes |-> IF sizeMatch(localHtml).found
               THEN bytesParse(sizeMatch(localHtml).text) ELSE 0,
     height |-> sourceHeight(localHtml, title),
     title |-> title]

InitSource ==
    /\ epc = "ready"
    /\ ein \in SourceEntries
    /\ eout = <<>>
    /\ StreamIdle /\ FetchIdle /\ RedirectIdle /\ SearchIdle /\ CloudIdle

\* extractSourceResults up to const meta
SourceMeta ==
    /\ epc = "ready"
    /\ eout' = sourceMeta(JoinWords(ein.html), trim(JoinWords(ein.title)))
    /\ epc' = "done"
    /\ UNCHANGED ein
    /\ UNCHANGED notEval

NextSource == SourceMeta

SpecSource == InitSource /\ [][NextSource]_vars

\* C13: the height in the metadata of an entry is 0 or one of the
\* canonical buckets 480, 720, 1080, 2160
C13_CanonicalHeight ==
    epc = "done" => eout.height \in {0, 480, 720, 1080, 2160}

\* the height each resolution marker stands for in C14, and the words that
\* are resolution markers outside its list
CanonicalMarkers ==
    {<<T2160p, 2160>>, <<T4K, 2160>>, <<T4k, 2160>>, <<T1080p, 1080>>,
     <<T720p, 720>>, <<T480p, 480>>}
OtherMarkers == {T576p, T1440p}

WordsOf(entry) ==
    {entry.html[k] : k \in 1..Len(entry.html)}
        \cup {entry.title[k] : k \in 1..Len(entry.title)}

ItemEntries ==
    {e \in SourceEntries : Len(e.html) <= 1 /\ e.title \in {<<>>, <<Tx>>}}

\* the redirect pages behind the link of the entry
ItemRedirectPages ==
    {p \in Pages : p.dest = <<104, 104>> /\ p.kind \in {"encoded", "notJson"}}

\* the final-links pages, one of them with an FSL anchor and a PixelServer
\* anchor only, one with a title, the size 5 MB and an FSL anchor
ItemFinalPages ==
    FinalPages
    \cup {FinalPage(<<>>, <<>>, <<AnchorFsl, AnchorPixel>>),
          FinalPage(<<84, 32, 45, 32, 72, 117, 98, 67, 108, 111, 117, 100>>,
                    <<53, 32, 77, 66>>, <<AnchorFsl>>)}

\* link: the anchors the entry carries (HubCloud, HubDrive, both, neither);
\* inner: the href of the HubCloud anchor on the HubDrive page, if any;
\* fails: the request for which fetchText returns null, if any
ItemInputs ==
    [entry : ItemEntries,
     link : {"cloud", "drive", "both", "none"},
     redirect : ItemRedirectPages,
     inner : {<<>>, <<104, 104>>},
     cloud : CloudPages,
     final : ItemFinalPages,
     fails : {"none", "redirect", "drive", "cloud", "final"}]

\* resolveRedirectUrl on a cache miss
resolved(in) ==
    IF in.fails = "redirect" THEN Null ELSE Resolve(in.redirect).ret

\* null, and the requests made on the way to it
NoSourceResult(asked) ==
    [present |-> FALSE, url |-> Null,
     meta |-> [bytes |-> 0, height |-> 0, title |-> <<>>],
     requests |-> asked]

ResolvedUrl(in) ==
    resolved(in).kind = "string" /\ Truthy(resolved(in).value)

\* extractSourceResults with the drive hop also tried when the cloud anchor
\* did not resolve
extractSourceResultsDriveAfterCloud(in) ==
    LET meta == sourceMeta(JoinWords(in.entry.html),
                           trim(JoinWords(in.entry.title)))
    IN  IF in.link \in {"cloud", "both"} /\ (ResolvedUrl(in) \/ in.link = "cloud")
        THEN [present |-> TRUE, url |-> resolved(in), meta |-> meta,
              requests |-> <<"redirectCloud">>]
        ELSE IF in.link = "both" /\ in.fails # "drive" /\ Truthy(in.inner)
        THEN [present |-> TRUE, url |-> Str(in.inner), meta |-> meta,
              requests |-> <<"redirectCloud", "redirectDrive", "drivePage">>]
        ELSE NoSourceResult(<<>>)

\* extractSourceResults: { url, meta, type } or null, and the requests it
\* makes: the redirect page behind the HubCloud or the HubDrive anchor, the
\* HubDrive page
extractSourceResults(in) ==
    LET meta == sourceMeta(JoinWords(in.entry.html),
                           trim(JoinWords(in.entry.title)))
    IN  IF in.link \in {"cloud", "both"}
        THEN [present |-> TRUE, url |-> resolved(in), meta |-> meta,
              requests |-> <<"redirectCloud">>]
        ELSE IF in.link = "drive"
        THEN IF ~ResolvedUrl(in)
             THEN NoSourceResult(<<"redirectDrive">>)
             ELSE IF in.fails # "drive" /\ Truthy(in.inner)
             THEN [present |-> TRUE, url |-> Str(in.inner), meta |-> meta,
                   requests |-> <<"redirectDrive", "drivePage">>]
             ELSE NoSourceResult(<<"redirectDrive", "drivePage">>)
        ELSE NoSourceResult(<<>>)

\* extractHubCloud on a cache miss
extractHubCloud(in, baseMeta) ==
    IF in.fails = "cloud" \/ ~Truthy(in.cloud.varUrl) \/ in.fails = "final"
    THEN <<>>
    ELSE collectLinks(in.final.anchors, currentMeta(in.final, baseMeta), <<>>)

\* the requests of extractHubCloud on a cache miss: the cloud page and, if
\* it came and holds var url, the final-links page
hubCloudRequests(in) ==
    IF in.fails = "cloud" \/ ~Truthy(in.cloud.varUrl) THEN <<"cloudPage">>
    ELSE <<"cloudPage", "finalLinks">>

\* sourceResult.meta.height ? `${sourceResult.meta.height}p` : undefined
\* (<<>> stands for undefined)
quality(meta) == IF meta.height # 0 THEN Digits(meta.height) \o <<112>> ELSE <<>>

\* the descriptor pushed for a link: name is link.source and the quality
\* after "4KHDHub - ", title is link.meta.title and the formatted bytes
Descriptor(link, meta) ==
    [name |-> <<link.source, quality(meta)>>,
     title |-> <<link.meta.title, link.meta.bytes>>,
     url |-> link.url,
     quality |-> quality(meta)]

InitItem ==
    /\ epc = "ready"
    /\ ein \in ItemInputs
    /\ eout = <<>>
    /\ StreamIdle /\ FetchIdle /\ RedirectIdle /\ SearchIdle /\ CloudIdle

\* const sourceResult = await extractSourceResults($, item)
ItemSource ==
    /\ epc = "ready"
    /\ eout' = [sourceResult |-> extractSourceResults(ein), results |-> <<>>,
                requests |-> extractSourceResults(ein).requests]
    /\ epc' = "extracted"
    /\ UNCHANGED ein
    /\ UNCHANGED notEval

\* if (sourceResult && sourceResult.url): extractHubCloud and forEach push
ItemLinks ==
    /\ epc = "extracted"
    /\ LET sourceResult == eout.sourceResult IN
       IF /\ sourceResult.present
          /\ sourceResult.url.kind = "string" /\ Truthy(sourceResult.url.value)
       THEN LET extractedLinks == extractHubCloud(ein, sourceResult.meta) IN
            eout' = [eout EXCEPT !.results =
                        [k \in 1..Len(extractedLinks) |->
                            Descriptor(extractedLinks[k], sourceResult.meta)],
                     !.requests = @ \o hubCloudRequests(ein)]
       ELSE UNCHANGED eout
    /\ epc' = "done"
    /\ UNCHANGED ein
    /\ UNCHANGED notEval

NextItem == ItemSource \/ ItemLinks

SpecItem == InitItem /\ [][NextItem]_vars

\* the entry of C16: marked 1080p, with a HubCloud link whose token
\* decodes, behind it a cloud page with its var url and a final-links page
\* with one FSL anchor and one PixelServer anchor of href /u/abc
Scenario ==
    /\ ein.entry.html = <<T1080p>>
    /\ ein.link = "cloud" /\ ein.fails = "none"
    /\ ein.redirect.kind = "encoded"
    /\ Truthy(ein.cloud.varUrl)
    /\ ein.final.anchors = <<AnchorFsl, AnchorPixel>>
    /\ AnchorPixel.href = <<47, 117, 47, 97, 98, 99>>

\* C16: for the scenario entry exactly two descriptors are returned: FSL
\* with quality 1080p and the href of the anchor unchanged, and PixelServer
\* with the url /api/file/abc
C16_EndToEnd ==
    (epc = "done" /\ Scenario) =>
        /\ Len(eout.results) = 2
        /\ eout.results[1].name[1] = "FSL"
        /\ eout.results[1].quality = T1080p
        /\ eout.results[1].url = AnchorFsl.href
        /\ eout.results[2].name[1] = "PixelServer"
        /\ eout.results[2].url =
               <<47, 97, 112, 105, 47, 102, 105, 108, 101, 47, 97, 98, 99>>

C16_Witness ==
    /\ epc = "done" /\ Scenario
    /\ Len(eout.results) = 2
    /\ eout.results[2].url # AnchorPixel.href

\* the title the final-links page supplies (its <title> without the
\* " - HubCloud" suffix; empty when it supplies none) and the size it
\* supplies (0 when it supplies none that reads as a size)
PageTitle(page) ==
    trim(ReplaceFirst(page.title,
                      <<32, 45, 32, 72, 117, 98, 67, 108, 111, 117, 100>>, <<>>))
PageBytes(page) == bytesParse(page.size)

\* C23: the title and the size shown for every resolved link are those of
\* the final-links page whenever the page supplies them, and those of the
\* entry only for a field the page does not supply
C23_PageMetaOverrides ==
    epc = "done" =>
        \A k \in 1..Len(eout.results) :
            /\ eout.results[k].title[1] =
                   IF PageTitle(ein.final) # <<>> THEN PageTitle(ein.final)
                   ELSE eout.sourceResult.meta.title
            /\ eout.results[k].title[2] =
                   IF PageBytes(ein.final) # 0 THEN PageBytes(ein.final)
                   ELSE eout.sourceResult.meta.bytes

\* the entry has the title x and the size 1 GB, the page the title T and
\* the size 5 MB: the link carries T and 5 MB
C23_Witness ==
    /\ epc = "done" /\ Len(eout.results) = 1
    /\ eout.sourceResult.meta.title = Tx
    /\ eout.sourceResult.meta.bytes = 1073741824
    /\ eout.results[1].title = <<<<84>>, 5242880>>

\* C22: when the cloud page has no var url assignment and has a
\* meta-refresh tag with a url= value, the final-links page is fetched
\* from that value and its links are returned
C22_MetaRefreshFollowed ==
    (/\ epc = "done"
     /\ eout.sourceResult.present /\ ResolvedUrl(ein) /\ ein.link = "cloud"
     /\ ein.fails = "none"
     /\ ~Truthy(ein.cloud.varUrl) /\ Truthy(ein.cloud.meta)
     /\ ein.final.anchors = <<AnchorFsl, AnchorPixel>>) =>
        /\ \E k \in 1..Len(eout.requests) : eout.requests[k] = "finalLinks"
        /\ Len(eout.results) = 2

\* C21: with a HubCloud anchor only that anchor is decoded and the drive
\* hop is never attempted, also when the decoding fails; otherwise, with a
\* HubDrive anchor, that anchor is decoded, the decoded page is fetched and
\* the raw href of its HubCloud anchor is returned undecoded; with neither
\* anchor, or when a step of the drive path fails, the entry yields
\* nothing and no cloud or final-links page is fetched for it
C21_HopOrder ==
    epc \in {"extracted", "done"} =>
        LET r == eout.sourceResult
            source == r.requests
            Asked(q) == \E k \in 1..Len(eout.requests) : eout.requests[k] = q
        IN  /\ ein.link \in {"cloud", "both"} =>
                /\ source = <<"redirectCloud">>
                /\ r.present /\ r.url = resolved(ein)
                /\ ~Asked("redirectDrive") /\ ~Asked("drivePage")
            /\ ein.link = "drive" =>
                /\ source \in {<<"redirectDrive">>,
                                <<"redirectDrive", "drivePage">>}
                /\ (Len(source) = 2) <=> ResolvedUrl(ein)
                /\ r.present <=> /\ ResolvedUrl(ein)
                                 /\ ein.fails # "drive"
                                 /\ ein.inner # <<>>
                /\ r.present => r.url = Str(ein.inner)
            /\ ein.link = "none" => source = <<>> /\ ~r.present
            /\ (~r.present /\ epc = "done") =>
                /\ eout.results = <<>>
                /\ ~Asked("cloudPage") /\ ~Asked("finalLinks")

\* the entry has both anchors and the HubCloud anchor does not decode: the
\* drive hop is not tried and nothing is returned for the entry
C21_Witness ==
    /\ epc = "done" /\ ein.link = "both" /\ ein.inner # <<>>
    /\ ein.fails = "none" /\ ein.redirect.kind = "notJson"
    /\ eout.requests = <<"redirectCloud">>
    /\ eout.results = <<>>

\* ------------------------------------- get4KHDHubStreams: itemsToProcess
MaxBlocks == 2

\* String(n).padStart(2, '0')
padStart2(n) == IF Len(Digits(n)) < 2 THEN <<48>> \o Digits(n) ELSE Digits(n)

\* an entry of the page: its text, and the season and episode it is a
\* release of (0 for a movie)
PageItem(text, season, episode) ==
    [text |-> text, season |-> season, episode |-> episode]

\* "Episode-NN" and "SNNENN" entries
EpisodeItem(season, episode) ==
    PageItem(<<69, 112, 105, 115, 111, 100, 101, 45>> \o padStart2(episode),
             season, episode)
SxxExxItem(season, episode) ==
    PageItem(<<83>> \o padStart2(season) \o <<69>> \o padStart2(episode),
             season, episode)

\* an .episode-item: the text of its .episode-title and its
\* .episode-download-item elements
Block(title, items) == [title |-> title, items |-> items]

SeasonTitle(season) == <<83>> \o padStart2(season)

BlockPool ==
    {Block(SeasonTitle(1), <<EpisodeItem(1, 10), SxxExxItem(1, 1)>>),
     Block(SeasonTitle(1), <<SxxExxItem(1, 10), SxxExxItem(1, 100)>>),
     Block(SeasonTitle(1), <<EpisodeItem(1, 100)>>),
     Block(SeasonTitle(2), <<SxxExxItem(2, 10), EpisodeItem(2, 1)>>),
     Block(<<83, 101, 97, 115, 111, 110, 32, 49>>, <<SxxExxItem(1, 1)>>),
     Block(SeasonTitle(0), <<SxxExxItem(0, 1), SxxExxItem(0, 0)>>)}

\* the .download-item elements of the page
DownloadLists ==
    {<<>>, <<PageItem(T1080p, 0, 0)>>,
     <<PageItem(T720p, 0, 0), PageItem(T4K, 0, 0)>>}

\* season = null, episode = null: -1 stands for the null of an argument
\* that was not given
Given(arg) == arg # -1

\* the truthiness of a number or null
TruthyNumber(arg) == Given(arg) /\ arg # 0

SelectInputs ==
    [isSeries : BOOLEAN, season : {-1, 0, 1, 2}, episode : {-1, 0, 1, 10},
     blocks : SeqsUpTo(BlockPool, MaxBlocks),
     downloads : DownloadLists]

RECURSIVE Filter(_, _, _)
\* the entries of the items whose text includes one of the two markers
Filter(items, episodeStr, eStr) ==
    IF items = <<>> THEN <<>>
    ELSE (IF \/ Includes(Head(items).text, episodeStr)
             \/ Includes(Head(items).text, eStr)
          THEN <<Head(items)>> ELSE <<>>)
         \o Filter(Tail(items), episodeStr, eStr)

RECURSIVE EpisodeItems(_, _, _)
\* $('.episode-item').each(...)
EpisodeItems(blocks, season, episode) ==
    IF blocks = <<>> THEN <<>>
    ELSE (IF Includes(Head(blocks).title, <<83>> \o padStart2(season))
          THEN Filter(Head(blocks).items,
                      <<69, 112, 105, 115, 111, 100, 101, 45>>
                          \o padStart2(episode),
                      <<69>> \o padStart2(episode))
          ELSE <<>>)
         \o EpisodeItems(Tail(blocks), season, episode)

\* itemsToProcess
selectItems(in) ==
    IF in.isSeries /\ TruthyNumber(in.season) /\ TruthyNumber(in.episode)
    THEN EpisodeItems(in.blocks, in.season, in.episode)
    ELSE in.downloads

InitSelect ==
    /\ epc = "ready"
    /\ ein \in SelectInputs
    /\ eout = <<>>
    /\ StreamIdle /\ FetchIdle /\ RedirectIdle /\ SearchIdle /\ CloudIdle

SelectItems ==
    /\ epc = "ready"
    /\ eout' = selectItems(ein)
    /\ epc' = "done"
    /\ UNCHANGED ein
    /\ UNCHANGED notEval

NextSelect == SelectItems

SpecSelect == InitSelect /\ [][NextSelect]_vars

\* C17: for a series called with a season and an episode, every entry
\* admitted for processing is a release of that season and that episode,
\* and no entry of another season or episode is admitted; otherwise all the
\* top-level download entries are admitted
C17_OnlyRequestedEpisode ==
    epc = "done" =>
        IF ein.isSeries /\ TruthyNumber(ein.season) /\ TruthyNumber(ein.episode)
        THEN \A k \in 1..Len(eout) :
                eout[k].season = ein.season /\ eout[k].episode = ein.episode
        ELSE eout = ein.downloads

\* C29: a series call that is given a season and an episode, season 0 or
\* episode 0 included, admits the filtered entries of the episode blocks
\* and never the top-level download entries of the movie branch
C29_FilterWhenSupplied ==
    epc = "done" /\ ein.isSeries /\ Given(ein.season) /\ Given(ein.episode)
        => eout = EpisodeItems(ein.blocks, ein.season, ein.episode)

\* ------------------------------------------- the three stages that cache
\* fetchPageUrl, resolveRedirectUrl and extractHubCloud side by side: a
\* behaviour runs the calls of one of the three, the one whose cache
\* entries exist
SearchStage == DOMAIN scache # {}
RedirectStage == DOMAIN rcache # {}
CloudStage == DOMAIN hcache # {}

InitStages == InitSearch \/ InitRedirect \/ InitCloud

NextStages ==
    \/ SearchStage /\ NextSearch
    \/ RedirectStage /\ NextRedirect
    \/ CloudStage /\ NextCloud

SpecStages == InitStages /\ [][NextStages]_vars

\* C19: a step in which a search returns without a URL, a redirect
\* resolution returns without a destination or a cloud resolution returns
\* zero links leaves the cache of its stage unchanged, and a step that
\* writes an entry is one in which the call returns what it resolved; after
\* a search or a redirect resolution that went to the origin and failed the
\* key of the call is still a miss, so the next call goes to the origin again
C19_WriteAfter ==
    [][/\ (spc # "returned" /\ spc' = "returned" /\ sret'.kind # "string")
             => /\ scache' = scache
                /\ sreq > 0 =>
                     ~getFromCache(scache', SearchKey(sargs.name, sargs.year),
                                   now).present
       /\ (SearchStage /\ scache' # scache)
             => spc' = "returned" /\ sret'.kind = "string"
       /\ (rpc # "returned" /\ rpc' = "returned" /\ rret'.kind # "string")
             => /\ rcache' = rcache
                /\ rpc = "fetch" =>
                     ~getFromCache(rcache', RedirectKey(redirectUrl),
                                   now).present
       /\ (RedirectStage /\ rcache' # rcache)
             => rpc' = "returned" /\ rret'.kind = "string"
       /\ (/\ CloudStage
           /\ \E c \in Callers : hpc[c] # "idle" /\ hpc'[c] = "idle"
           /\ hret'.links = <<>>)
             => hcache' = hcache
       /\ (CloudStage /\ hcache' # hcache)
             => /\ \E c \in Callers : hpc[c] # "idle" /\ hpc'[c] = "idle"
                /\ hret'.links # <<>>
      ]_vars

\* a search went to the origin, found no matching card and returned null,
\* and the key of the call is still a miss
C19_Witness ==
    /\ SearchStage /\ cacheEnabled
    /\ spc = "returned" /\ sret = Null /\ sreq = 1
    /\ ~getFromCache(scache, SearchKey(sargs.name, sargs.year), now).present
    /\ found[<<sargs.name, sargs.year>>].present

\* -------------------------------------- two workers on one cache key
\* Two calls in flight for the same URL, of resolveRedirectUrl or of
\* extractHubCloud, against an origin that answers both with the same
\* pages.  epc is the position of each worker; eout holds the cache entry
\* of the key, the value each call returned and the values written.
RaceInputs ==
    [stage : {"redirect", "cloud"},
     redirect : ItemRedirectPages,
     final : FinalPages,
     meta : [Callers -> BaseMetas]]

NoEntry == [present |-> FALSE, data |-> <<>>]
Links(links) == [kind |-> "links", value |-> links]

InitRace ==
    /\ epc = [w \in Callers |-> "call"]
    /\ ein \in RaceInputs
    /\ eout = [cache |-> NoEntry,
               ret |-> [w \in Callers |-> Pending],
               writes |-> <<>>]
    /\ StreamIdle /\ FetchIdle /\ RedirectIdle /\ SearchIdle /\ CloudIdle

\* the call of worker w returns value, having saved data if save holds
RaceReturns(w, value, save, data) ==
    /\ eout' = [cache |-> IF save THEN [present |-> TRUE, data |-> data]
                          ELSE eout.cache,
                ret |-> [eout.ret EXCEPT ![w] = value],
                writes |-> IF save THEN Append(eout.writes, data)
                           ELSE eout.writes]
    /\ epc' = [epc EXCEPT ![w] = "done"]
    /\ UNCHANGED ein
    /\ UNCHANGED notEval

\* if (cached) return cached.data || cached
RaceHit(w) ==
    /\ epc[w] = "call" /\ eout.cache.present
    /\ RaceReturns(w, IF ein.stage = "redirect" THEN Str(eout.cache.data)
                      ELSE Links(eout.cache.data), FALSE, <<>>)

\* the lookup misses; the first page is requested
RaceMiss(w) ==
    /\ epc[w] = "call" /\ ~eout.cache.present
    /\ epc' = [epc EXCEPT ![w] = "fetch"]
    /\ UNCHANGED <<ein, eout>>
    /\ UNCHANGED notEval

\* resolveRedirectUrl: the redirect page came; decode, save, return
RaceRedirectFetched(w) ==
    /\ epc[w] = "fetch" /\ ein.stage = "redirect"
    /\ LET r == Resolve(ein.redirect) IN
       RaceReturns(w, r.ret, cacheEnabled /\ r.save, r.ret.value)

\* extractHubCloud: the cloud page came with its var url; the final-links
\* page is requested
RaceCloudFetched(w) ==
    /\ epc[w] = "fetch" /\ ein.stage = "cloud"
    /\ epc' = [epc EXCEPT ![w] = "links"]
    /\ UNCHANGED <<ein, eout>>
    /\ UNCHANGED notEval

\* extractHubCloud: the final-links page came; collect, save, return
RaceLinksFetched(w) ==
    /\ epc[w] = "links"
    /\ LET links == FinalLinksTable[ein.final, ein.meta[w]] IN
       RaceReturns(w, Links(links), SavesLinks(links), links)

NextRace ==
    \/ \E w \in Callers : RaceHit(w)
    \/ \E w \in Callers : RaceMiss(w)
    \/ \E w \in Callers : RaceRedirectFetched(w)
    \/ \E w \in Callers : RaceCloudFetched(w)
    \/ \E w \in Callers : RaceLinksFetched(w)

SpecRace == InitRace /\ [][NextRace]_vars

\* C24: the writes of the two workers to the key store the same value, and
\* the two calls return the same value, whichever worker wrote first and
\* whatever metadata each was given
C24_BenignRace ==
    /\ \A i, j \in 1..Len(eout.writes) : eout.writes[i] = eout.writes[j]
    /\ (\A w \in Callers : epc[w] = "done") => eout.ret["a"] = eout.ret["b"]

\* --------------------------------------------------------- the cache keys
\* The keys the three stages build for two titles of a year, two redirect
\* URLs and two cloud URLs.
KeyInputs ==
    [names : Titles \X Titles, year : Years,
     redirects : Destinations \X Destinations,
     clouds : Destinations \X Destinations]

InitKeys ==
    /\ epc = "ready"
    /\ ein \in KeyInputs
    /\ eout = <<>>
    /\ StreamIdle /\ FetchIdle /\ RedirectIdle /\ SearchIdle /\ CloudIdle

\* const cacheKey = ... of fetchPageUrl, resolveRedirectUrl, extractHubCloud
BuildKeys ==
    /\ epc = "ready"
    /\ eout' = [search |-> [k \in 1..2 |-> SearchKey(ein.names[k], ein.year)],
                redirect |-> [k \in 1..2 |-> RedirectKey(ein.redirects[k])],
                cloud |-> [k \in 1..2 |-> HubCloudKey(ein.clouds[k])]]
    /\ epc' = "done"
    /\ UNCHANGED ein
    /\ UNCHANGED notEval

NextKeys == BuildKeys

SpecKeys == InitKeys /\ [][NextKeys]_vars

\* C25: the keys of the search, redirect and final-links stages are
\* pairwise different for all inputs, also when the same URL goes through
\* resolveRedirectUrl and extractHubCloud
C25_StagesDisjoint ==
    epc = "done" =>
        \A i, j \in 1..2 :
            /\ eout.search[i] # eout.redirect[j]
            /\ eout.search[i] # eout.cloud[j]
            /\ eout.redirect[i] # eout.cloud[j]

\* the same URL is given to resolveRedirectUrl and to extractHubCloud
C25_Witness ==
    /\ epc = "done"
    /\ ein.redirects[1] = ein.clouds[1]
    /\ StripNonAlnum(ein.redirects[1]) = StripNonAlnum(ein.clouds[2])

\* C27: two different redirect URLs, two different cloud URLs and two
\* different titles of the same year never have the same cache key
C27_KeysInjective ==
    epc = "done" =>
        /\ ein.redirects[1] # ein.redirects[2] =>
              eout.redirect[1] # eout.redirect[2]
        /\ ein.clouds[1] # ein.clouds[2] => eout.cloud[1] # eout.cloud[2]
        /\ ein.names[1] # ein.names[2] => eout.search[1] # eout.search[2]
====
